---- MODULE Spec2Model ----
(***************************************************************************)
(* ChainCommand: the purchase-order life cycle, the human-approval gate    *)
(* and the cooperative tasks (cycle loop, manual agent trigger, monitor    *)
(* loop, decision calls) that share the runtime state.                     *)
(*                                                                         *)
(* Money, quantities and time are scaled to small naturals.  A datetime is *)
(* a record [set, t, aware]: `aware' tells whether it carries a timezone   *)
(* (datetime.now(timezone.utc)) or not (datetime.utcnow()); Python raises  *)
(* TypeError when an aware and a naive datetime are ordered or subtracted. *)
(***************************************************************************)
EXTENDS Integers, Sequences, FiniteSets, TLC

\* ------------------------------------------------------------- bounds
MaxTime == 1          \* the clock runs 0..MaxTime
MaxCycles == 2        \* run_cycle is started at most this many times
MaxTriggers == 1      \* manual logistics triggers
MaxDecisions == 2     \* decision calls
MaxTicks == 1         \* monitor ticks
MaxToolCalls == 2     \* direct tool invocations (ToolSpec)
MaxConsume == 2       \* largest demand draw of one product in one cycle
MaxStarts == 1        \* start requests
MaxStops == 1         \* stop requests
MaxMonTicks == 5      \* monitor ticks (MonitorSpec)
MaxViolations == 2    \* threshold violations of one snapshot
MaxAnomalies == 1     \* anomalies found in one tick
MaxMonTime == 2       \* the clock of MonitorSpec runs 0..MaxMonTime

\* ------------------------------------------------------------- data
Products == {"P1", "P2"}
ProductList == <<"P1", "P2">>
UnknownProduct == "PX"
Suppliers == {"S1", "S2"}
UnknownSupplier == "SX"

ProductUnitCost(p) == IF p = "P1" THEN 1 ELSE 2
ReorderPoint(p) == IF p = "P1" THEN 2 ELSE 3
SafetyStock(p) == IF p = "P1" THEN 1 ELSE 2
MinOrderQty(p) == IF p = "P1" THEN 2 ELSE 1
InitStocks == {0, 3}

\* Supplier.lead_time_mean, and the lead time used for an unknown supplier
LeadTimeMean(s) == IF s = "S1" THEN 1 ELSE 2
DefaultLeadDays == 7
\* evaluate_supplier's recommendation: the best-ranked active supplier of p
Recommended(p) == IF p = "P1" THEN "S1" ELSE "S2"

\* settings.auto_approve_below / settings.cost_escalation_threshold choices
AutoApproveChoices == {2, 4}
EscalationChoices == {3, 6}

Reasons == {"r"}

\* ------------------------------------------------------------- datetimes
NoneDt == [set |-> FALSE, t |-> 0, aware |-> FALSE]
NaiveDt(n) == [set |-> TRUE, t |-> n, aware |-> FALSE]
AwareDt(n) == [set |-> TRUE, t |-> n, aware |-> TRUE]

\* a < b on datetimes: "TypeError" when one is aware and the other naive
DtLess(a, b) ==
    IF a.aware # b.aware THEN "TypeError"
    ELSE IF a.t < b.t THEN "True" ELSE "False"

\* a <= b on datetimes
DtLessEq(a, b) ==
    IF a.aware # b.aware THEN "TypeError"
    ELSE IF a.t <= b.t THEN "True" ELSE "False"

Max(a, b) == IF a >= b THEN a ELSE b
Min(a, b) == IF a <= b THEN a ELSE b

\* sum(f(x) for x in S)
RECURSIVE SumOver(_, _)
SumOver(S, f) ==
    IF S = {} THEN 0
    ELSE LET x == CHOOSE y \in S : TRUE IN f[x] + SumOver(S \ {x}, f)

\* check_thresholds has not been called
NoCheck == [done |-> FALSE, events |-> <<>>]

VARIABLES
    now,                \* the wall clock
    settings,           \* [auto_approve_below, cost_escalation_threshold]
    stock,              \* Product.current_stock, by product
    purchase_orders,    \* _runtime.purchase_orders
    pending_approvals,  \* _runtime.pending_approvals, in insertion order
    running,            \* orchestrator._running
    cycle_count,        \* orchestrator._cycle_count
    cyc,                \* the cycle loop task: where run_loop / run_cycle stands
    lg,                 \* the logistics passes in flight, by caller
    mon,                \* the monitor loop task
    tick_count,         \* monitor._tick_count
    kpi_len,            \* len(kpi_engine._history)
    calls,              \* counters of external requests made so far
    obs,                \* per order: observations of what happened to it
    bus,                \* the EventBus: subscriptions, event log, publish in flight
    monitor,            \* ProactiveMonitor._running, ._task and its loop tasks
    action_log,         \* BaseAgent._action_log of the agent that calls the tools
    kpi_history,        \* kpi_engine._history, entry by entry (KpiSpec; the
                        \* other specifications follow its length, kpi_len)
    kpi_events,         \* what the last check_thresholds call returned
    safety_stock,       \* Product.safety_stock, as adjust_safety_stock sets it
    run_loops,          \* the run_loop tasks start_simulation has created
    coordinator,        \* the coordinator agent: its own _cycle_count
    cycle_complete      \* data.cycle of the cycle_complete events published

vars == <<now, settings, stock, purchase_orders, pending_approvals, running,
          cycle_count, cyc, lg, mon, tick_count, kpi_len, calls, obs, bus,
          monitor, action_log, kpi_history, kpi_events, safety_stock, run_loops,
          coordinator, cycle_complete>>

\* the state of the unit-level specifications
aux == <<monitor, action_log, kpi_history, kpi_events, safety_stock, run_loops,
         coordinator, cycle_complete>>

\* everything but the bus and the unit-level state
nonBus_aux == <<now, settings, stock, purchase_orders, pending_approvals, running,
                cycle_count, cyc, lg, mon, tick_count, kpi_len, calls, obs>>

\* ------------------------------------------------------------- the HITL gate
\* The auto-approve branch without "po.status = OrderStatus.APPROVED".
HitlGate_StatusNotSet(total_cost, cfg) ==
    IF total_cost < cfg.auto_approve_below
    THEN [approval_status |-> "auto_approved", status |-> "pending",
          approved_by |-> "system", request |-> FALSE, risk_level |-> "none"]
    ELSE IF total_cost >= cfg.cost_escalation_threshold
    THEN [approval_status |-> "pending", status |-> "pending",
          approved_by |-> "", request |-> TRUE, risk_level |-> "high"]
    ELSE [approval_status |-> "pending", status |-> "pending",
          approved_by |-> "", request |-> TRUE, risk_level |-> "medium"]

\* The escalation test written with > instead of >=.
HitlGate_StrictEscalation(total_cost, cfg) ==
    IF total_cost < cfg.auto_approve_below
    THEN [approval_status |-> "auto_approved", status |-> "approved",
          approved_by |-> "system", request |-> FALSE, risk_level |-> "none"]
    ELSE IF total_cost > cfg.cost_escalation_threshold
    THEN [approval_status |-> "pending", status |-> "pending",
          approved_by |-> "", request |-> TRUE, risk_level |-> "high"]
    ELSE [approval_status |-> "pending", status |-> "pending",
          approved_by |-> "", request |-> TRUE, risk_level |-> "medium"]

\* The review branches leaving the order in status approved.
HitlGate_PendingApproved(total_cost, cfg) ==
    IF total_cost < cfg.auto_approve_below
    THEN [approval_status |-> "auto_approved", status |-> "approved",
          approved_by |-> "system", request |-> FALSE, risk_level |-> "none"]
    ELSE IF total_cost >= cfg.cost_escalation_threshold
    THEN [approval_status |-> "pending", status |-> "approved",
          approved_by |-> "", request |-> TRUE, risk_level |-> "high"]
    ELSE [approval_status |-> "pending", status |-> "approved",
          approved_by |-> "", request |-> TRUE, risk_level |-> "medium"]

\* What the gate decides for an order of this cost: the order's approval_status,
\* status and approved_by, and whether (and at which risk) a request is registered.
HitlGate(total_cost, cfg) ==
    IF total_cost < cfg.auto_approve_below
    THEN [approval_status |-> "auto_approved", status |-> "approved",
          approved_by |-> "system", request |-> FALSE, risk_level |-> "none"]
    ELSE IF total_cost >= cfg.cost_escalation_threshold
    THEN [approval_status |-> "pending", status |-> "pending",
          approved_by |-> "", request |-> TRUE, risk_level |-> "high"]
    ELSE [approval_status |-> "pending", status |-> "pending",
          approved_by |-> "", request |-> TRUE, risk_level |-> "medium"]

\* HumanApprovalRequest(...) as _create_approval builds it; po_id is data["po_id"]
\* (0 when the data carries none).
NewApproval(id, request_type, estimated_cost, risk_level, po_id) ==
    [request_id |-> id, request_type |-> request_type,
     estimated_cost |-> estimated_cost, risk_level |-> risk_level,
     status |-> "pending", decided_at |-> NoneDt, decided_by |-> "",
     reason |-> "", po_id |-> po_id]

\* _create_approval: registers the request under its fresh id.
CreateApproval(approvals, request_type, estimated_cost, risk_level, po_id) ==
    Append(approvals,
           NewApproval(Len(approvals) + 1, request_type, estimated_cost,
                       risk_level, po_id))

\* unit_cost == 0.0: the product's unit cost, when the product exists
EffectiveUnitCost(product_id, unit_cost) ==
    IF unit_cost = 0 /\ product_id \in Products
    THEN ProductUnitCost(product_id) ELSE unit_cost

LeadDays(supplier_id) ==
    IF supplier_id \in Suppliers THEN LeadTimeMean(supplier_id) ELSE DefaultLeadDays

\* The validation with a quantity of zero let through.
InputRejected_NegativeOnly(quantity, unit_cost) == quantity < 0 \/ unit_cost < 0

\* "if quantity <= 0: return {error}; if unit_cost < 0: return {error}"
InputRejected(quantity, unit_cost) == quantity <= 0 \/ unit_cost < 0

\* nothing has happened to a new order yet
NewObs == [credits |-> 0, passes |-> 0, due_passes |-> 0, appr_passes |-> 0]

\* CreatePurchaseOrder.execute: the result and the order list, approvals map (and
\* observation records) it leaves.
CreatePurchaseOrder(orders, approvals, ob, cfg, clock, supplier_id, product_id, quantity, unit_cost) ==
    IF InputRejected(quantity, unit_cost)
    THEN [error |-> TRUE, orders |-> orders, approvals |-> approvals, obs |-> ob]
    ELSE
      LET cost == EffectiveUnitCost(product_id, unit_cost)
          total_cost == quantity * cost
          gate == HitlGate(total_cost, cfg)
          po == [po_id |-> Len(orders) + 1,
                 supplier_id |-> supplier_id,
                 product_id |-> product_id,
                 quantity |-> quantity,
                 unit_cost |-> cost,
                 total_cost |-> total_cost,
                 status |-> gate.status,
                 created_at |-> NaiveDt(clock),
                 expected_delivery |-> AwareDt(clock + LeadDays(supplier_id)),
                 approval_status |-> gate.approval_status,
                 approved_by |-> gate.approved_by]
      IN [error |-> FALSE,
          orders |-> Append(orders, po),
          approvals |-> IF gate.request
                        THEN CreateApproval(approvals, "purchase_order", total_cost,
                                            gate.risk_level, po.po_id)
                        ELSE approvals,
          obs |-> Append(ob, NewObs)]

\* decide_approval: the approvals map after a decision call on request_id
DecideApproval(approvals, request_id, approved, reason, clock) ==
    IF request_id \notin DOMAIN approvals
    THEN approvals
    ELSE [approvals EXCEPT ![request_id] =
            [@ EXCEPT !.status = IF approved THEN "approved" ELSE "rejected",
                      !.decided_at = AwareDt(clock),
                      !.decided_by = "human",
                      !.reason = reason]]


\* ------------------------------------------------------------- logistics
IsActive(po) == po.status \in {"pending", "approved", "shipped"}

\* active_pos: the indices of the orders a pass tracks, in list order
ActiveOrders(orders) ==
    SelectSeq([k \in 1..Len(orders) |-> k], LAMBDA k : IsActive(orders[k]))

\* "po.expected_delivery and po.expected_delivery < now"
DelayCheck(po, nowdt) ==
    IF ~po.expected_delivery.set THEN "False"
    ELSE DtLess(po.expected_delivery, nowdt)

\* "Simulate order progression" for order j: approved -> shipped; shipped ->
\* delivered with the stock credit once expected_delivery <= now.
Progress(orders, stk, ob, j, nowdt) ==
    LET po == orders[j]
        same == [raised |-> FALSE, orders |-> orders, stock |-> stk, obs |-> ob]
    IN IF po.status = "approved"
       THEN [same EXCEPT !.orders = [orders EXCEPT ![j].status = "shipped"]]
       ELSE IF po.status = "shipped" /\ po.expected_delivery.set
       THEN LET due == DtLessEq(po.expected_delivery, nowdt)
            IN IF due = "TypeError"
               THEN [same EXCEPT !.raised = TRUE]
               ELSE IF due = "True"
               THEN [raised |-> FALSE,
                     orders |-> [orders EXCEPT ![j].status = "delivered"],
                     stock |-> IF po.product_id \in Products
                               THEN [stk EXCEPT ![po.product_id] = @ + po.quantity]
                               ELSE stk,
                     obs |-> IF po.product_id \in Products
                             THEN [ob EXCEPT ![j].credits = @ + 1]
                             ELSE ob]
               ELSE same
       ELSE same

\* The loop over active_pos from position i up to its next suspension: the
\* TypeError of a datetime comparison ("raise"), the await of the delay event of
\* order active[i] ("emit"), or the end of the list ("tail").
RECURSIVE LogisticsLoop(_, _, _, _, _, _)
LogisticsLoop(orders, stk, ob, active, i, nowdt) ==
    LET here == [outcome |-> "tail", orders |-> orders, stock |-> stk,
                 obs |-> ob, i |-> i]
    IN IF i > Len(active)
       THEN here
       ELSE LET d == DelayCheck(orders[active[i]], nowdt)
            IN IF d = "TypeError"
               THEN [here EXCEPT !.outcome = "raise"]
               ELSE IF d = "True"
               THEN [here EXCEPT !.outcome = "emit"]
               ELSE LET r == Progress(orders, stk, ob, active[i], nowdt)
                    IN IF r.raised
                       THEN [here EXCEPT !.outcome = "raise"]
                       ELSE LogisticsLoop(r.orders, r.stock, r.obs, active,
                                          i + 1, nowdt)

\* After the delay event of order active[i] was emitted: its progression, then
\* the rest of the loop.
LogisticsAfterEmit(orders, stk, ob, active, i, nowdt) ==
    LET r == Progress(orders, stk, ob, active[i], nowdt)
    IN IF r.raised
       THEN [outcome |-> "raise", orders |-> orders, stock |-> stk,
             obs |-> ob, i |-> i]
       ELSE LogisticsLoop(r.orders, r.stock, r.obs, active, i + 1, nowdt)

LTasks == {"cycle", "manual"}
IdlePass == [pc |-> "idle", active |-> <<>>, i |-> 0, now |-> 0]

Cap(n, m) == IF n > m THEN m ELSE n

\* The orders whose approval request stands approved
ApprovedOrders(approvals) ==
    {approvals[r].po_id : r \in {x \in DOMAIN approvals :
                                    approvals[x].status = "approved"}}

\* A pass begins at clock n and lists `active': every order it tracks records
\* the pass, whether its delivery was due at n and whether its request stood
\* approved.
PassBegan(ob, orders, approvals, active, n) ==
    [j \in DOMAIN ob |->
        IF \E k \in DOMAIN active : active[k] = j
        THEN [ob[j] EXCEPT
                !.passes = Cap(@ + 1, 2),
                !.due_passes = IF orders[j].expected_delivery.t <= n
                               THEN Cap(@ + 1, 2) ELSE @,
                !.appr_passes = IF j \in ApprovedOrders(approvals) THEN 1 ELSE @]
        ELSE ob[j]]

\* ------------------------------------------------------------- event bus
MaxSubscriptions == 3
MaxPublishes == 2
MaxEnqueues == 3      \* enqueue calls (QueueSpec)
MaxTimeouts == 1      \* polls of the empty queue that time out (QueueSpec)
MaxActs == 2          \* BaseAgent.act calls (AgentSpec)
MaxCoordTriggers == 1 \* manual triggers of the coordinator (CoordSpec)
MaxSimStarts == 2     \* start requests (SimSpec)
MaxSimStops == 2      \* stop requests (SimSpec)
MaxSimCycles == 3     \* run_cycle calls of all loops together (SimSpec)
MaxAdjusts == 2       \* adjust_safety_stock calls (AdjustSpec)
MaxLogLen == 102      \* publish calls, and enqueue calls (LogSpec)
MaxSnapshots == 3     \* calculate_snapshot calls (KpiSpec)
MaxKpiTicks == 5      \* monitor ticks (KpiSpec): the fifth takes a snapshot
MaxKpiOrders == 1     \* orders created between snapshots (KpiSpec)
MaxQueries == 1       \* query_kpi_history calls (KpiSpec)
MaxMonStarts == 2     \* ProactiveMonitor.start calls (LifeSpec)
MaxMonStops == 2      \* ProactiveMonitor.stop calls (LifeSpec)
MaxLifeTicks == 2     \* ticks begun by the loop tasks (LifeSpec)
MaxTickEvents == 2    \* events one tick publishes (LifeSpec)

EventTypes == {"low_stock_alert", "po_created"}
\* handlers are coroutine functions and bound methods, as initialize() registers
Handlers == {"inventory_optimizer", "coordinator"}
HasQualname(h) == h \in Handlers
\* what one handler invocation does: whether it awaits before it ends, and
\* whether it ends by raising an Exception
HandlerBehaviours == [suspends : BOOLEAN, raises : BOOLEAN]

\* EventBus.__init__
NewBus ==
    [subscribers |-> [e \in EventTypes |-> <<>>],
     all_subscribers |-> <<>>,
     event_log |-> <<>>,
     pc |-> "idle",
     event |-> "",
     logged |-> FALSE,
     tasks |-> <<>>,
     outcome |-> "none",
     queue |-> <<>>,
     running |-> FALSE,
     task |-> "none",
     stop |-> "idle",
     timeouts |-> 0]

\* handlers + self._all_subscribers, for the event's type only
MatchedHandlers_TypeOnly(b, event_type) == b.subscribers[event_type]

MatchedHandlers(b, event_type) ==
    b.subscribers[event_type] \o b.all_subscribers

\* The handler's exception passed on to gather.
SafeDispatch_NoIsolation(h, raises) == IF raises THEN "raised" ELSE "done"

\* _safe_dispatch once the handler has ended: an Exception is caught and logged
\* with handler.__qualname__; anything the except block raises goes on to gather
SafeDispatch(h, raises) ==
    IF raises
    THEN IF HasQualname(h) THEN "logged" ELSE "raised"
    ELSE "done"

\* gather returning as soon as one dispatch has ended.
GatherResult_FirstCompleted(tasks) ==
    IF \E k \in DOMAIN tasks : tasks[k].st = "raised" THEN "raised"
    ELSE IF \E k \in DOMAIN tasks : tasks[k].st # "suspended" THEN "returned"
    ELSE "waiting"

\* await asyncio.gather(*tasks): the first exception of a dispatch is raised to
\* publish, otherwise gather returns once every dispatch has ended
GatherResult(tasks) ==
    IF \E k \in DOMAIN tasks : tasks[k].st = "raised" THEN "raised"
    ELSE IF \A k \in DOMAIN tasks : tasks[k].st # "suspended" THEN "returned"
    ELSE "waiting"

\* publish leaves the gather when it has a result
Gathered(b) ==
    LET res == GatherResult(b.tasks)
    IN IF res = "waiting" THEN b ELSE [b EXCEPT !.pc = "idle", !.outcome = res]

\* publish(event) up to its first suspension: the event is logged, one dispatch
\* per matched handler is created and each runs until its handler awaits or
\* ends; with no handler publish returns at once
Publish(b, event_type, beh) ==
    LET logd == [b EXCEPT !.event_log = Append(@, event_type)]
        handlers == MatchedHandlers(logd, event_type)
        tasks == [k \in DOMAIN handlers |->
                    [h |-> handlers[k],
                     waited |-> beh[k].suspends,
                     raises |-> beh[k].raises,
                     st |-> IF beh[k].suspends THEN "suspended"
                            ELSE SafeDispatch(handlers[k], beh[k].raises)]]
        started == [logd EXCEPT !.event = event_type,
                                !.logged = (logd.event_log # <<>>
                                            /\ logd.event_log[Len(logd.event_log)]
                                                 = event_type),
                                !.tasks = tasks,
                                !.pc = "gather",
                                !.outcome = "none"]
    IN IF tasks = <<>>
       THEN [started EXCEPT !.pc = "idle", !.outcome = "returned"]
       ELSE Gathered(started)

\* a suspended handler goes on to its end
HandlerEnds(b, k) ==
    LET ended == [b EXCEPT !.tasks[k].st =
                               SafeDispatch(b.tasks[k].h, b.tasks[k].raises)]
    IN IF b.pc = "gather" THEN Gathered(ended) ELSE ended

\* task.cancel() reaching a publish suspended in gather: gather cancels every
\* dispatch that has not ended; CancelledError is not an Exception, so
\* _safe_dispatch lets it through and publish ends with it
CancelPublish(b) ==
    [b EXCEPT !.tasks = [k \in DOMAIN b.tasks |->
                           IF b.tasks[k].st = "suspended"
                           THEN [b.tasks[k] EXCEPT !.st = "cancelled"]
                           ELSE b.tasks[k]],
              !.pc = "idle",
              !.outcome = "cancelled"]

\* The newest event taken first.
QueueGet_Newest(q) == [event |-> q[Len(q)], rest |-> SubSeq(q, 1, Len(q) - 1)]

\* self._queue.get(): the oldest event leaves the queue
QueueGet(q) == [event |-> Head(q), rest |-> Tail(q)]

\* _loop once publish has ended: an exception ends the task, otherwise
\* "while self._running" is tested and the next wait_for begins
LoopAfterPublish(b) ==
    IF b.pc # "idle" THEN [b EXCEPT !.task = "publish"]
    ELSE IF b.outcome = "raised" THEN [b EXCEPT !.task = "done"]
    ELSE IF b.running THEN [b EXCEPT !.task = "get"]
    ELSE [b EXCEPT !.task = "done"]

\* ------------------------------------------------------------- monitor life cycle
\* ProactiveMonitor.__init__: not running, no task; `loops' holds the _loop
\* tasks created so far, `stop' the stop() call in progress
NewMonitor ==
    [running |-> FALSE, task |-> 0, loops |-> <<>>,
     stop |-> [pc |-> "idle", target |-> 0, seen |-> 0], stops |-> 0]

\* asyncio.create_task(self._loop()): the task exists and has not run yet;
\* n counts the events it has published, left those its tick has yet to publish
NewLoop == [pc |-> "new", n |-> 0, left |-> 0]

\* start(): "self._running = True; self._task = asyncio.create_task(...)",
\* whatever self._task held
StartTask(m) ==
    [m EXCEPT !.running = TRUE, !.loops = Append(@, NewLoop),
              !.task = Len(m.loops) + 1]

\* task.cancel(): a task that has not ended is cancelled where it stands
CancelTask(loop) ==
    IF loop.pc = "done" THEN loop ELSE [loop EXCEPT !.pc = "cancelling"]

\* stop() up to "await self._task": the flag is cleared, self._task (and no
\* other task) is cancelled; with no task stop returns at once
StopCall(m) ==
    IF m.task = 0
    THEN [m EXCEPT !.running = FALSE, !.stops = @ + 1,
                   !.stop = [pc |-> "returned", target |-> 0, seen |-> Len(m.loops)]]
    ELSE [m EXCEPT !.running = FALSE, !.stops = @ + 1,
                   !.loops[m.task] = CancelTask(@),
                   !.stop = [pc |-> "awaiting", target |-> m.task,
                             seen |-> Len(m.loops)]]

\* ------------------------------------------------------------- initial state
\* The system as initialize() leaves it: data generated, the first KPI snapshot
\* taken, no order, no approval request, no loop started.
Init ==
    /\ now = 0
    /\ settings \in [auto_approve_below : AutoApproveChoices,
                     cost_escalation_threshold : EscalationChoices]
    /\ stock \in [Products -> InitStocks]
    /\ purchase_orders = <<>>
    /\ pending_approvals = <<>>
    /\ running = FALSE
    /\ cycle_count = 0
    /\ cyc = [pc |-> "stopped", todo |-> <<>>, consumed |-> {},
              failed |-> FALSE, failures |-> 0]
    /\ lg = [t \in LTasks |-> IdlePass]
    /\ mon = [pc |-> "off"]
    /\ tick_count = 0
    /\ kpi_len = 1
    /\ calls = [triggers |-> 0, decisions |-> 0, tools |-> 0,
                starts |-> 0, stops |-> 0]
    /\ obs = <<>>
    /\ bus = NewBus
    /\ monitor = NewMonitor
    /\ action_log = <<>>
    /\ kpi_history = <<>>
    /\ kpi_events = NoCheck
    /\ safety_stock = [p \in Products |-> SafetyStock(p)]
    /\ run_loops = <<>>
    /\ coordinator = [cycle_count |-> 0]
    /\ cycle_complete = <<>>

\* ------------------------------------------------------------- cycle loop
\* POST /simulation/start: creates the run_loop task unless a loop is running
StartSimulation ==
    /\ ~running
    /\ cyc.pc = "stopped"
    /\ calls.starts < MaxStarts
    /\ calls' = [calls EXCEPT !.starts = @ + 1]
    /\ cyc' = [cyc EXCEPT !.pc = "created"]
    /\ UNCHANGED <<bus, aux, now, settings, stock, purchase_orders, pending_approvals,
                   running, cycle_count, lg, mon, tick_count, kpi_len, obs>>

\* POST /simulation/stop: stop_loop clears the flag; _loop_task is never set,
\* so no task is cancelled.  The run_loop task created by a start has run its
\* first step before a later request is served.
StopSimulation ==
    /\ calls.stops < MaxStops
    /\ cyc.pc # "created"
    /\ running' = FALSE
    /\ calls' = [calls EXCEPT !.stops = @ + 1]
    /\ UNCHANGED <<bus, aux, now, settings, stock, purchase_orders, pending_approvals,
                   cycle_count, cyc, lg, mon, tick_count, kpi_len, obs>>

\* The loop going on whatever the flag says.
WhileRunning_Always(r) == TRUE

\* "while self._running"
WhileRunning(r) == r

\* The exception of a cycle ending the loop task.
OnCycleError_Terminates(c) ==
    [c EXCEPT !.pc = "stopped", !.failed = TRUE, !.failures = @ + 1]

\* run_loop's "except Exception": the error is logged and the loop sleeps 5 s
OnCycleError(c) ==
    [c EXCEPT !.pc = "sleep", !.failed = TRUE, !.failures = @ + 1]

\* run_loop from its start to the first suspension of the first cycle
RunLoopBegin ==
    /\ cyc.pc = "created"
    /\ running' = TRUE
    /\ mon' = [mon EXCEPT !.pc = "idle"]
    /\ cycle_count' = cycle_count + 1
    /\ cyc' = [cyc EXCEPT !.pc = "scan"]
    /\ UNCHANGED <<bus, aux, now, settings, stock, purchase_orders, pending_approvals,
                   lg, tick_count, kpi_len, calls, obs>>

\* the sleep between two cycles (or the back-off after a failed one) is over
CycleBegin ==
    /\ cyc.pc = "sleep"
    /\ WhileRunning(running)
    /\ cycle_count < MaxCycles
    /\ cycle_count' = cycle_count + 1
    /\ cyc' = [cyc EXCEPT !.pc = "scan", !.failed = FALSE]
    /\ UNCHANGED <<bus, aux, now, settings, stock, purchase_orders, pending_approvals,
                   running, lg, mon, tick_count, kpi_len, calls, obs>>

\* the sleep is over and the flag is cleared: run_loop returns
LoopExit ==
    /\ cyc.pc = "sleep"
    /\ ~WhileRunning(running)
    /\ cyc' = [cyc EXCEPT !.pc = "stopped"]
    /\ UNCHANGED <<bus, aux, now, settings, stock, purchase_orders, pending_approvals,
                   running, cycle_count, lg, mon, tick_count, kpi_len, calls, obs>>

\* The forecasting stage left out.
NextStage_SkipsForecast(pc) ==
    CASE pc = "scan" -> "inventory"
      [] pc = "forecast" -> "inventory"
      [] pc = "plan" -> "coord"
      [] pc = "coord" -> "report"

NextStage(pc) ==
    CASE pc = "scan" -> "forecast"
      [] pc = "forecast" -> "inventory"
      [] pc = "plan" -> "coord"
      [] pc = "coord" -> "report"

\* a stage that changes no order, approval or stock hands over to the next one
StageAdvance ==
    /\ cyc.pc \in {"scan", "forecast", "plan", "coord"}
    /\ cyc' = [cyc EXCEPT !.pc = NextStage(cyc.pc)]
    /\ UNCHANGED <<bus, aux, now, settings, stock, purchase_orders, pending_approvals,
                   running, cycle_count, lg, mon, tick_count, kpi_len, calls, obs>>

\* reorder_products[:5]
ReorderProducts(stk) ==
    SelectSeq(ProductList, LAMBDA p : stk[p] < ReorderPoint(p))

\* supplier_manager.run_cycle starts: the products to reorder are listed
ProcureBegin ==
    /\ cyc.pc = "inventory"
    /\ cyc' = [cyc EXCEPT !.pc = "procure", !.todo = ReorderProducts(stock)]
    /\ UNCHANGED <<bus, aux, now, settings, stock, purchase_orders, pending_approvals,
                   running, cycle_count, lg, mon, tick_count, kpi_len, calls, obs>>

OrderQty(p, stk) ==
    Max(MinOrderQty(p), ReorderPoint(p) - stk[p] + SafetyStock(p))

\* supplier_manager.run_cycle, one product: a high-cost order only asks for
\* approval, any other is created through create_purchase_order
ProcureStep ==
    /\ cyc.pc = "procure"
    /\ cyc.todo # <<>>
    /\ LET p == Head(cyc.todo)
           qty == OrderQty(p, stock)
           total_cost == qty * ProductUnitCost(p)
           made == CreatePurchaseOrder(purchase_orders, pending_approvals, obs,
                                       settings, now, Recommended(p), p, qty,
                                       ProductUnitCost(p))
       IN IF total_cost >= settings.cost_escalation_threshold
          THEN /\ pending_approvals' =
                     CreateApproval(pending_approvals, "purchase_order",
                                    total_cost, "high", 0)
               /\ UNCHANGED <<purchase_orders, obs>>
          ELSE /\ purchase_orders' = made.orders
               /\ pending_approvals' = made.approvals
               /\ obs' = made.obs
    /\ cyc' = [cyc EXCEPT !.todo = Tail(cyc.todo)]
    /\ UNCHANGED <<bus, aux, now, settings, stock, running, cycle_count, lg, mon,
                   tick_count, kpi_len, calls>>

\* ------------------------------------------------------------- logistics pass
\* What a segment of a pass leaves: the orders and stock as the loop left them,
\* the pass suspended, or ended by the exception (which fails the cycle when the
\* cycle called it).
ApplyPass(t, pass, res, cycNow) ==
    /\ purchase_orders' = res.orders
    /\ stock' = res.stock
    /\ IF res.outcome = "raise"
       THEN /\ obs' = res.obs
            /\ lg' = [lg EXCEPT ![t] = IdlePass]
            /\ cyc' = IF t = "cycle" THEN OnCycleError(cycNow) ELSE cycNow
       ELSE /\ obs' = res.obs
            /\ lg' = [lg EXCEPT ![t] = [pass EXCEPT !.pc = res.outcome, !.i = res.i]]
            /\ cyc' = cycNow

\* LogisticsCoordinatorAgent.run_cycle from its start to its first suspension
LogisticsBegin(t, cycNow) ==
    LET active == ActiveOrders(purchase_orders)
        pass == [pc |-> "run", active |-> active, i |-> 1, now |-> now]
        res == LogisticsLoop(purchase_orders, stock,
                             PassBegan(obs, purchase_orders, pending_approvals,
                                       active, now),
                             active, 1, NaiveDt(now))
    IN ApplyPass(t, pass, res, cycNow)

\* stage 5 of run_cycle
CycleLogistics ==
    /\ cyc.pc = "procure"
    /\ cyc.todo = <<>>
    /\ lg["cycle"].pc = "idle"
    /\ LogisticsBegin("cycle", [cyc EXCEPT !.pc = "logistics"])
    /\ UNCHANGED <<bus, aux, now, settings, pending_approvals, running, cycle_count, mon,
                   tick_count, kpi_len, calls>>

\* POST /agents/logistics_coordinator/trigger
TriggerAgent ==
    /\ calls.triggers < MaxTriggers
    /\ lg["manual"].pc = "idle"
    /\ calls' = [calls EXCEPT !.triggers = @ + 1]
    /\ LogisticsBegin("manual", cyc)
    /\ UNCHANGED <<bus, aux, now, settings, pending_approvals, running, cycle_count, mon,
                   tick_count, kpi_len>>

\* a suspended pass goes on: after the delay event, the order's progression and
\* the rest of the loop; after the inventory query and the analysis, the return
LogisticsContinue(t) ==
    /\ lg[t].pc \in {"emit", "tail"}
    /\ IF lg[t].pc = "emit"
       THEN ApplyPass(t, lg[t],
                      LogisticsAfterEmit(purchase_orders, stock, obs, lg[t].active,
                                         lg[t].i, NaiveDt(lg[t].now)),
                      cyc)
       ELSE /\ lg' = [lg EXCEPT ![t] = IdlePass]
            /\ cyc' = IF t = "cycle" THEN [cyc EXCEPT !.pc = "plan"] ELSE cyc
            /\ UNCHANGED <<purchase_orders, stock, obs>>
    /\ UNCHANGED <<bus, aux, now, settings, pending_approvals, running, cycle_count, mon,
                   tick_count, kpi_len, calls>>

\* ------------------------------------------------------------- KPI stage
\* calculate_snapshot subtracts created_at from expected_delivery for every
\* delivered order
SnapshotRaises(orders) ==
    \E j \in DOMAIN orders :
        /\ orders[j].status = "delivered"
        /\ orders[j].expected_delivery.set
        /\ orders[j].created_at.set
        /\ orders[j].expected_delivery.aware # orders[j].created_at.aware

\* stage 9, first part: the snapshot is appended to the history
KpiSnapshot ==
    /\ cyc.pc = "report"
    /\ IF SnapshotRaises(purchase_orders)
       THEN /\ cyc' = OnCycleError(cyc)
            /\ UNCHANGED kpi_len
       ELSE /\ cyc' = [cyc EXCEPT !.pc = "kpi", !.consumed = {}]
            /\ kpi_len' = kpi_len + 1
    /\ UNCHANGED <<bus, aux, now, settings, stock, purchase_orders, pending_approvals,
                   running, cycle_count, lg, mon, tick_count, calls, obs>>

\* The decrement without its floor.
AfterDemand_Unclamped(level, consumed) == level - consumed

\* "p.current_stock = max(0, p.current_stock - consumed)"
AfterDemand(level, consumed) == Max(0, level - consumed)

\* The consumption loop suspended after every product.
ConsumeLoop_Suspending(stk, draw, done) ==
    LET p == CHOOSE q \in Products \ done : TRUE
    IN [stock |-> [stk EXCEPT ![p] = AfterDemand(stk[p], draw[p])],
        done |-> done \cup {p}]

\* "for p in products: p.current_stock = max(0, p.current_stock - consumed)",
\* from the products in `done' up to the loop's next suspension: it has none,
\* the loop runs to its end
ConsumeLoop(stk, draw, done) ==
    [stock |-> [p \in Products |->
                   IF p \in done THEN stk[p] ELSE AfterDemand(stk[p], draw[p])],
     done |-> Products]

\* stage 9, second part: the violations have been published, persist_cycle is
\* called
PersistCycle ==
    /\ cyc.pc = "kpi"
    /\ cyc' = [cyc EXCEPT !.pc = "persist"]
    /\ UNCHANGED <<bus, aux, now, settings, stock, purchase_orders, pending_approvals,
                   running, cycle_count, lg, mon, tick_count, kpi_len, calls, obs>>

\* stage 9, last part: the cycle is persisted, demand is consumed and run_cycle
\* returns
Consume ==
    /\ cyc.pc = "persist"
    /\ \E draw \in [Products -> 0..MaxConsume] :
          LET r == ConsumeLoop(stock, draw, cyc.consumed)
          IN /\ stock' = r.stock
             /\ cyc' = [cyc EXCEPT !.consumed = r.done,
                                   !.pc = IF r.done = Products THEN "sleep" ELSE "persist"]
    /\ UNCHANGED <<bus, aux, now, settings, purchase_orders, pending_approvals, running,
                   cycle_count, lg, mon, tick_count, kpi_len, calls, obs>>

\* ------------------------------------------------------------- monitor loop
MonitorTickBegin ==
    /\ mon.pc = "idle"
    /\ tick_count < MaxTicks
    /\ tick_count' = tick_count + 1
    /\ mon' = [mon EXCEPT !.pc = "alerts"]
    /\ UNCHANGED <<bus, aux, now, settings, stock, purchase_orders, pending_approvals,
                   running, cycle_count, cyc, lg, kpi_len, calls, obs>>

\* the delivery-delay scan compares expected_delivery with utcnow()
MonitorDelayRaises(orders, nowdt) ==
    \E j \in DOMAIN orders :
        IsActive(orders[j]) /\ DelayCheck(orders[j], nowdt) = "TypeError"

\* tick, after the inventory alerts: the KPI check of every 5th tick, then the
\* delivery-delay scan
MonitorScan ==
    /\ mon.pc = "alerts"
    /\ kpi_len' = IF tick_count % 5 = 0 /\ ~SnapshotRaises(purchase_orders)
                  THEN kpi_len + 1 ELSE kpi_len
    /\ mon' = IF (tick_count % 5 = 0 /\ SnapshotRaises(purchase_orders))
                 \/ MonitorDelayRaises(purchase_orders, NaiveDt(now))
              THEN [mon EXCEPT !.pc = "idle"]
              ELSE [mon EXCEPT !.pc = "tick_event"]
    /\ UNCHANGED <<bus, aux, now, settings, stock, purchase_orders, pending_approvals,
                   running, cycle_count, cyc, lg, tick_count, calls, obs>>

\* the tick event is published and the loop sleeps
MonitorTickEnd ==
    /\ mon.pc = "tick_event"
    /\ mon' = [mon EXCEPT !.pc = "idle"]
    /\ UNCHANGED <<bus, aux, now, settings, stock, purchase_orders, pending_approvals,
                   running, cycle_count, cyc, lg, tick_count, kpi_len, calls, obs>>

\* ------------------------------------------------------------- requests
\* POST /approval/{request_id}/decide
DecideApprovalCall ==
    /\ calls.decisions < MaxDecisions
    /\ \E id \in 1..(Len(pending_approvals) + 1), approved \in BOOLEAN,
          reason \in Reasons :
          pending_approvals' =
              DecideApproval(pending_approvals, id, approved, reason, now)
    /\ calls' = [calls EXCEPT !.decisions = @ + 1]
    /\ UNCHANGED <<bus, aux, now, settings, stock, purchase_orders, running, cycle_count,
                   cyc, lg, mon, tick_count, kpi_len, obs>>

AdvanceClock ==
    /\ now < MaxTime
    /\ now' = now + 1
    /\ UNCHANGED <<bus, aux, settings, stock, purchase_orders, pending_approvals, running,
                   cycle_count, cyc, lg, mon, tick_count, kpi_len, calls, obs>>

Next ==
    \/ StartSimulation
    \/ StopSimulation
    \/ RunLoopBegin
    \/ CycleBegin
    \/ LoopExit
    \/ StageAdvance
    \/ ProcureBegin
    \/ ProcureStep
    \/ CycleLogistics
    \/ TriggerAgent
    \/ \E t \in LTasks : LogisticsContinue(t)
    \/ KpiSnapshot
    \/ PersistCycle
    \/ Consume
    \/ MonitorTickBegin
    \/ MonitorScan
    \/ MonitorTickEnd
    \/ DecideApprovalCall
    \/ AdvanceClock

Spec == Init /\ [][Next]_vars


\* ------------------------------------------------------------- direct tool use
ToolSuppliers == {"S1", UnknownSupplier}
ToolProducts == Products \cup {UnknownProduct}
ToolQuantities == -1..3
ToolUnitCosts == -1..3

\* create_purchase_order invoked on its own (as the tool's callers and its unit
\* tests do), with any arguments
DirectCreatePurchaseOrder ==
    /\ calls.tools < MaxToolCalls
    /\ \E s \in ToolSuppliers, p \in ToolProducts, q \in ToolQuantities,
          u \in ToolUnitCosts :
          LET made == CreatePurchaseOrder(purchase_orders, pending_approvals, obs,
                                          settings, now, s, p, q, u)
          IN /\ purchase_orders' = made.orders
             /\ pending_approvals' = made.approvals
             /\ obs' = made.obs
    /\ calls' = [calls EXCEPT !.tools = @ + 1]
    /\ UNCHANGED <<bus, aux, now, settings, stock, running, cycle_count, cyc, lg, mon,
                   tick_count, kpi_len>>

ToolNext == DirectCreatePurchaseOrder

ToolSpec == Init /\ [][ToolNext]_vars


\* ------------------------------------------------------------- the coordinator
coordFrame ==
    <<bus, now, settings, stock, purchase_orders, pending_approvals, running,
      cycle_count, lg, mon, tick_count, kpi_len, obs, monitor, action_log,
      kpi_history, kpi_events, safety_stock, run_loops>>

\* CoordinatorAgent.run_cycle: "self._cycle_count += 1" at its start, and at
\* its end the cycle_complete event with "cycle": self._cycle_count, published
\* through emit_event.  The agent and the events it has published afterwards.
CoordinatorRunCycle(agent, events) ==
    LET counted == [agent EXCEPT !.cycle_count = @ + 1]
    IN [agent |-> counted, events |-> Append(events, counted.cycle_count)]

\* stage 7 of run_cycle: the coordinator runs, then the reporter's stage begins
CycleCoordinator ==
    /\ cyc.pc = "coord"
    /\ LET r == CoordinatorRunCycle(coordinator, cycle_complete)
       IN /\ coordinator' = r.agent
          /\ cycle_complete' = r.events
    /\ cyc' = [cyc EXCEPT !.pc = NextStage(cyc.pc)]
    /\ UNCHANGED <<coordFrame, calls>>

\* POST /agents/coordinator/trigger: trigger_agent awaits the agent's run_cycle
TriggerCoordinator ==
    /\ calls.triggers < MaxCoordTriggers
    /\ calls' = [calls EXCEPT !.triggers = @ + 1]
    /\ LET r == CoordinatorRunCycle(coordinator, cycle_complete)
       IN /\ coordinator' = r.agent
          /\ cycle_complete' = r.events
    /\ UNCHANGED <<coordFrame, cyc>>

\* stages 1, 2 and 6
CoordStageAdvance == cyc.pc # "coord" /\ StageAdvance

CoordInit == Init

CoordNext ==
    \/ StartSimulation
    \/ RunLoopBegin
    \/ CycleBegin
    \/ CoordStageAdvance
    \/ ProcureBegin
    \/ ProcureStep
    \/ CycleLogistics
    \/ LogisticsContinue("cycle")
    \/ CycleCoordinator
    \/ KpiSnapshot
    \/ PersistCycle
    \/ Consume
    \/ TriggerCoordinator

CoordSpec == CoordInit /\ [][CoordNext]_vars

\* ------------------------------------------------------------- the bus alone
\* everything but the bus
nonBus == <<nonBus_aux, aux>>

Subscriptions(b) ==
    Len(b.all_subscribers)
        + Len(b.subscribers["low_stock_alert"]) + Len(b.subscribers["po_created"])

\* subscribe(event_type, handler)
BusSubscribe ==
    /\ Subscriptions(bus) < MaxSubscriptions
    /\ \E e \in EventTypes, h \in Handlers :
          bus' = [bus EXCEPT !.subscribers[e] = Append(@, h)]
    /\ UNCHANGED nonBus

\* subscribe_all(handler)
BusSubscribeAll ==
    /\ Subscriptions(bus) < MaxSubscriptions
    /\ \E h \in Handlers : bus' = [bus EXCEPT !.all_subscribers = Append(@, h)]
    /\ UNCHANGED nonBus

\* a task calls publish(event)
BusPublish ==
    /\ bus.pc = "idle"
    /\ Len(bus.event_log) < MaxPublishes
    /\ \E e \in EventTypes, beh \in [1..MaxSubscriptions -> HandlerBehaviours] :
          bus' = Publish(bus, e, beh)
    /\ UNCHANGED nonBus

\* the event loop resumes a handler that was awaiting
BusHandlerEnds ==
    /\ \E k \in DOMAIN bus.tasks :
          /\ bus.tasks[k].st = "suspended"
          /\ bus' = HandlerEnds(bus, k)
    /\ UNCHANGED nonBus

BusInit ==
    /\ Init
    /\ settings = [auto_approve_below |-> 2, cost_escalation_threshold |-> 3]
    /\ stock = [p \in Products |-> 3]

BusNext ==
    \/ BusSubscribe
    \/ BusSubscribeAll
    \/ BusPublish
    \/ BusHandlerEnds

BusSpec == BusInit /\ [][BusNext]_vars

\* ------------------------------------------------------------- the event log
RecentWindow == 100

\* The oldest events of the log instead of the newest.
RecentEvents_Oldest(b) == SubSeq(b.event_log, 1, Min(RecentWindow, Len(b.event_log)))

\* recent_events: "self._event_log[-100:]"
RecentEvents(b) ==
    SubSeq(b.event_log, Max(1, Len(b.event_log) - RecentWindow + 1),
           Len(b.event_log))

\* event_count: "len(self._event_log)"
EventCount(b) == Len(b.event_log)

\* the event of the n-th call, n counted from 0: every third is a po_created
LogEvent(n) == IF n % 3 = 2 THEN "po_created" ELSE "low_stock_alert"

\* publish(event) with no handler subscribed: the event is logged and publish
\* returns
LogPublish ==
    /\ bus.pc = "idle"
    /\ calls.tools < MaxLogLen
    /\ bus' = Publish(bus, LogEvent(calls.tools),
                      [k \in 1..MaxSubscriptions |->
                          [suspends |-> FALSE, raises |-> FALSE]])
    /\ calls' = [calls EXCEPT !.tools = @ + 1]
    /\ UNCHANGED <<aux, now, settings, stock, purchase_orders, pending_approvals,
                   running, cycle_count, cyc, lg, mon, tick_count, kpi_len, obs>>

\* enqueue(event) while no loop was started: "await self._queue.put(event)" on
\* a queue made by asyncio.Queue(), which has no maximum size
LogEnqueue ==
    /\ calls.triggers < MaxLogLen
    /\ bus' = [bus EXCEPT !.queue = Append(@, LogEvent(calls.triggers))]
    /\ calls' = [calls EXCEPT !.triggers = @ + 1]
    /\ UNCHANGED <<aux, now, settings, stock, purchase_orders, pending_approvals,
                   running, cycle_count, cyc, lg, mon, tick_count, kpi_len, obs>>

LogInit == BusInit

LogNext ==
    \/ LogPublish
    \/ LogEnqueue

LogSpec == LogInit /\ [][LogNext]_vars

\* ------------------------------------------------------------- the queue loop
\* enqueue(event): the event is put at the end of the unbounded queue
Enqueue ==
    /\ Len(bus.event_log) + Len(bus.queue) < MaxEnqueues
    /\ \E e \in EventTypes : bus' = [bus EXCEPT !.queue = Append(@, e)]
    /\ UNCHANGED nonBus

\* _loop: wait_for(queue.get()) returns the oldest event and publish(event)
\* runs up to its first suspension
QueueDrain ==
    /\ bus.task = "get"
    /\ bus.queue # <<>>
    /\ \E beh \in [1..MaxSubscriptions -> HandlerBehaviours] :
          LET got == QueueGet(bus.queue)
          IN bus' = LoopAfterPublish(
                        Publish([bus EXCEPT !.queue = got.rest], got.event, beh))
    /\ UNCHANGED nonBus

\* _loop: wait_for times out on the empty queue and the loop goes round
QueueTimeout ==
    /\ bus.task = "get"
    /\ bus.queue = <<>>
    /\ bus.timeouts < MaxTimeouts
    /\ bus' = [bus EXCEPT !.timeouts = @ + 1,
                          !.task = IF bus.running THEN "get" ELSE "done"]
    /\ UNCHANGED nonBus

\* a handler of the event being published goes on to its end; when it was the
\* last one publish returns to _loop
QueueHandlerEnds ==
    /\ bus.task = "publish"
    /\ \E k \in DOMAIN bus.tasks :
          /\ bus.tasks[k].st = "suspended"
          /\ bus' = LoopAfterPublish(HandlerEnds(bus, k))
    /\ UNCHANGED nonBus

\* stop(), up to "await self._task": the flag is cleared and the loop task is
\* cancelled where it is suspended
QueueStop ==
    /\ bus.stop = "idle"
    /\ bus' = IF bus.task \in {"none", "done"}
              THEN [bus EXCEPT !.running = FALSE, !.stop = "awaiting"]
              ELSE [(IF bus.task = "publish" THEN CancelPublish(bus) ELSE bus)
                       EXCEPT !.running = FALSE, !.stop = "awaiting",
                              !.task = "cancelling"]
    /\ UNCHANGED nonBus

\* the cancelled loop task ends: _loop has no handler for CancelledError
QueueTeardown ==
    /\ bus.task = "cancelling"
    /\ bus' = [bus EXCEPT !.task = "done"]
    /\ UNCHANGED nonBus

\* stop(): "await self._task" is over and stop returns
QueueStopReturns ==
    /\ bus.stop = "awaiting"
    /\ bus.task \in {"none", "done"}
    /\ bus' = [bus EXCEPT !.stop = "returned"]
    /\ UNCHANGED nonBus

\* the bus with the subscriptions of initialize(), as start() leaves it
QueueInit ==
    /\ now = 0
    /\ settings = [auto_approve_below |-> 2, cost_escalation_threshold |-> 3]
    /\ stock = [p \in Products |-> 3]
    /\ purchase_orders = <<>>
    /\ pending_approvals = <<>>
    /\ running = FALSE
    /\ cycle_count = 0
    /\ cyc = [pc |-> "stopped", todo |-> <<>>, consumed |-> {},
              failed |-> FALSE, failures |-> 0]
    /\ lg = [t \in LTasks |-> IdlePass]
    /\ mon = [pc |-> "off"]
    /\ tick_count = 0
    /\ kpi_len = 1
    /\ calls = [triggers |-> 0, decisions |-> 0, tools |-> 0,
                starts |-> 0, stops |-> 0]
    /\ obs = <<>>
    /\ bus = [NewBus EXCEPT
                !.subscribers["low_stock_alert"] = <<"inventory_optimizer">>,
                !.all_subscribers = <<"coordinator">>,
                !.running = TRUE,
                !.task = "get"]
    /\ monitor = NewMonitor
    /\ action_log = <<>>
    /\ kpi_history = <<>>
    /\ kpi_events = NoCheck
    /\ safety_stock = [p \in Products |-> SafetyStock(p)]
    /\ run_loops = <<>>
    /\ coordinator = [cycle_count |-> 0]
    /\ cycle_complete = <<>>

\* the steps of the _loop task and of the handlers it waits for
QueueTask ==
    \/ QueueDrain
    \/ QueueTimeout
    \/ QueueHandlerEnds
    \/ QueueTeardown

QueueNext ==
    \/ Enqueue
    \/ QueueTask
    \/ QueueStop
    \/ QueueStopReturns

QueueSpec == QueueInit /\ [][QueueNext]_vars /\ WF_vars(QueueTask)


\* ------------------------------------------------------------- the cycle loop alone
\* the steps of the run_loop task
LoopTask ==
    \/ RunLoopBegin
    \/ CycleBegin
    \/ LoopExit
    \/ StageAdvance
    \/ ProcureBegin
    \/ ProcureStep
    \/ CycleLogistics
    \/ LogisticsContinue("cycle")
    \/ KpiSnapshot
    \/ PersistCycle
    \/ Consume

LoopNext ==
    \/ StartSimulation
    \/ StopSimulation
    \/ AdvanceClock
    \/ LoopTask

\* the event loop runs a task that is ready, and every sleep ends
LoopSpec == Init /\ [][LoopNext]_vars /\ WF_vars(LoopTask)


\* ------------------------------------------------------------- the monitor's life cycle
\* start()
MonStart ==
    /\ Len(monitor.loops) < MaxMonStarts
    /\ monitor' = StartTask(monitor)
    /\ UNCHANGED <<nonBus_aux, bus, action_log, kpi_history, kpi_events, safety_stock, run_loops, coordinator,
                   cycle_complete>>

\* stop() is called
MonStop ==
    /\ monitor.stops < MaxMonStops
    /\ monitor.stop.pc # "awaiting"
    /\ monitor' = StopCall(monitor)
    /\ UNCHANGED <<nonBus_aux, bus, action_log, kpi_history, kpi_events, safety_stock, run_loops, coordinator,
                   cycle_complete>>

\* stop(): the awaited task has ended and stop returns
MonStopReturns ==
    /\ monitor.stop.pc = "awaiting"
    /\ monitor.loops[monitor.stop.target].pc = "done"
    /\ monitor' = [monitor EXCEPT !.stop.pc = "returned"]
    /\ UNCHANGED <<nonBus_aux, bus, action_log, kpi_history, kpi_events, safety_stock, run_loops, coordinator,
                   cycle_complete>>

\* _loop at "while self._running", on its first run or after its sleep: it
\* ends, or begins a tick, which publishes its first event and waits in gather
LoopRun ==
    /\ \E t \in DOMAIN monitor.loops, k \in 1..MaxTickEvents :
          /\ monitor.loops[t].pc \in {"new", "sleep"}
          /\ IF monitor.running
             THEN /\ tick_count < MaxLifeTicks
                  /\ tick_count' = tick_count + 1
                  /\ monitor' = [monitor EXCEPT
                                   !.loops[t] = [pc |-> "tick", n |-> @.n + 1,
                                                 left |-> k - 1]]
             ELSE /\ monitor' = [monitor EXCEPT !.loops[t].pc = "done"]
                  /\ UNCHANGED tick_count
    /\ UNCHANGED <<now, settings, stock, purchase_orders, pending_approvals, running,
                   cycle_count, cyc, lg, mon, kpi_len, calls, obs, bus, action_log,
                   kpi_history, kpi_events, safety_stock, run_loops, coordinator,
                   cycle_complete>>

\* tick: a publish has returned; the next event is published, or the tick is
\* over and _loop sleeps
LoopPublish ==
    /\ \E t \in DOMAIN monitor.loops :
          /\ monitor.loops[t].pc = "tick"
          /\ monitor' = IF monitor.loops[t].left > 0
                        THEN [monitor EXCEPT !.loops[t].n = @ + 1,
                                             !.loops[t].left = @ - 1]
                        ELSE [monitor EXCEPT !.loops[t].pc = "sleep"]
    /\ UNCHANGED <<nonBus_aux, bus, action_log, kpi_history, kpi_events, safety_stock, run_loops, coordinator,
                   cycle_complete>>

\* the cancelled task runs: CancelledError reaches _loop, which breaks
LoopTeardown ==
    /\ \E t \in DOMAIN monitor.loops :
          /\ monitor.loops[t].pc = "cancelling"
          /\ monitor' = [monitor EXCEPT !.loops[t].pc = "done"]
    /\ UNCHANGED <<nonBus_aux, bus, action_log, kpi_history, kpi_events, safety_stock, run_loops, coordinator,
                   cycle_complete>>

\* the monitor as initialize() constructs it
LifeInit == BusInit

LifeNext ==
    \/ MonStart
    \/ MonStop
    \/ MonStopReturns
    \/ LoopRun
    \/ LoopPublish
    \/ LoopTeardown

LifeSpec == LifeInit /\ [][LifeNext]_vars

\* ------------------------------------------------------------- start and stop requests
simFrame ==
    <<bus, now, settings, stock, purchase_orders, pending_approvals, cyc, lg, mon,
      kpi_len, obs, action_log, kpi_history, kpi_events, safety_stock, coordinator,
      cycle_complete>>

\* POST /simulation/start: "if orchestrator.running: return already_running;
\* asyncio.create_task(orchestrator.run_loop())".  The task created by an
\* earlier start has run its first step before the next request is served.
SimStart ==
    /\ calls.starts < MaxSimStarts
    /\ \A t \in DOMAIN run_loops : run_loops[t].pc # "created"
    /\ calls' = [calls EXCEPT !.starts = @ + 1]
    /\ run_loops' = IF running THEN run_loops
                    ELSE Append(run_loops, [pc |-> "created"])
    /\ UNCHANGED <<simFrame, running, monitor, cycle_count, tick_count>>

\* POST /simulation/stop: stop_loop clears the flag; _loop_task is never
\* assigned, so no task is cancelled, and the monitor is not stopped
SimStop ==
    /\ calls.stops < MaxSimStops
    /\ \A t \in DOMAIN run_loops : run_loops[t].pc # "created"
    /\ running' = FALSE
    /\ calls' = [calls EXCEPT !.stops = @ + 1]
    /\ UNCHANGED <<simFrame, run_loops, monitor, cycle_count, tick_count>>

\* run_loop from its start to the first suspension of its first cycle: the
\* flag is set, monitor.start() is called, the first run_cycle begins
SimLoopBegin ==
    /\ cycle_count < MaxSimCycles
    /\ Len(monitor.loops) < MaxMonStarts
    /\ \E t \in DOMAIN run_loops :
          /\ run_loops[t].pc = "created"
          /\ run_loops' = [run_loops EXCEPT ![t].pc = "cycle"]
    /\ running' = TRUE
    /\ monitor' = StartTask(monitor)
    /\ cycle_count' = cycle_count + 1
    /\ UNCHANGED <<simFrame, calls, tick_count>>

\* a run_cycle returns or raises: the loop sleeps
SimCycleEnds ==
    /\ \E t \in DOMAIN run_loops :
          /\ run_loops[t].pc = "cycle"
          /\ run_loops' = [run_loops EXCEPT ![t].pc = "sleep"]
    /\ UNCHANGED <<simFrame, calls, running, monitor, cycle_count, tick_count>>

\* a sleep is over: "while self._running" starts the next cycle or ends the
\* task
SimWake ==
    /\ \E t \in DOMAIN run_loops :
          /\ run_loops[t].pc = "sleep"
          /\ IF WhileRunning(running)
             THEN /\ cycle_count < MaxSimCycles
                  /\ cycle_count' = cycle_count + 1
                  /\ run_loops' = [run_loops EXCEPT ![t].pc = "cycle"]
             ELSE /\ run_loops' = [run_loops EXCEPT ![t].pc = "done"]
                  /\ UNCHANGED cycle_count
    /\ UNCHANGED <<simFrame, calls, running, monitor, tick_count>>

SimInit == BusInit

SimNext ==
    \/ SimStart
    \/ SimStop
    \/ SimLoopBegin
    \/ SimCycleEnds
    \/ SimWake
    \/ LoopRun
    \/ LoopPublish

SimSpec == SimInit /\ [][SimNext]_vars

\* ------------------------------------------------------------- an agent's act
MAX_ACTION_LOG == 1000
\* a keyword argument the caller left out
Missing == "missing"
\* the tools of the acting agent, and the action types it is asked to run
AgentTools == {"create_purchase_order"}
ActionTypes == AgentTools \cup {"no_such_tool"}
AgentSuppliers == {"S1", Missing}
AgentProducts == {"P1"}
AgentQuantities == {-1, 0, 1, 2}
AgentUnitCosts == {-1, 0, 1, 3}
AgentInputs ==
    [supplier_id : AgentSuppliers, product_id : AgentProducts,
     quantity : AgentQuantities, unit_cost : AgentUnitCosts]

\* _find_tool
FindTool(tools, name) == IF name \in tools THEN name ELSE "None"

\* tool.execute(**action.input_data) for create_purchase_order:
\* kwargs["supplier_id"] raises KeyError when the key is missing, before
\* anything else is done; otherwise the tool runs and returns its result
Execute(orders, approvals, ob, cfg, clock, input) ==
    IF input.supplier_id = Missing
    THEN [raised |-> TRUE, result |-> [error |-> FALSE, po_id |-> 0],
          orders |-> orders, approvals |-> approvals, obs |-> ob]
    ELSE LET made == CreatePurchaseOrder(orders, approvals, ob, cfg, clock,
                                         input.supplier_id, input.product_id,
                                         input.quantity, input.unit_cost)
         IN [raised |-> FALSE,
             result |-> [error |-> made.error,
                         po_id |-> IF made.error THEN 0 ELSE Len(made.orders)],
             orders |-> made.orders, approvals |-> made.approvals, obs |-> made.obs]

\* the {"error": ...} result
ErrorResult == [error |-> TRUE, po_id |-> 0]

\* self._action_log.append(action) and the cap on the log
Logged(log, entry) ==
    LET all == Append(log, entry)
    IN IF Len(all) > MAX_ACTION_LOG
       THEN SubSeq(all, Len(all) - MAX_ACTION_LOG + 1, Len(all))
       ELSE all

\* The tool's exception left uncaught: act ends with it, nothing is logged.
OnToolRaised_Propagates(log, entry) == [log |-> log, returned |-> "raised"]

\* "except Exception as exc": the action is marked failed and logged, the
\* result is {"error": str(exc)}
OnToolRaised(log, entry) ==
    [log |-> Logged(log, [entry EXCEPT !.success = FALSE, !.error = "exception",
                                       !.returned = ErrorResult]),
     returned |-> ErrorResult]

\* an AgentAction before act has run it; `returned' is what act returned for it
NewAction(action_type, input) ==
    [action_type |-> action_type, input_data |-> input, success |-> TRUE,
     error |-> "None", output_data |-> "empty", returned |-> "None"]

\* BaseAgent.act
Act(log, orders, approvals, ob, cfg, clock, action_type, input) ==
    LET action == NewAction(action_type, input)
        same == [orders |-> orders, approvals |-> approvals, obs |-> ob]
    IN IF FindTool(AgentTools, action_type) = "None"
       THEN same @@ [log |-> Append(log, [action EXCEPT !.success = FALSE,
                                                        !.error = "Tool not found",
                                                        !.returned = ErrorResult]),
                     returned |-> ErrorResult]
       ELSE LET ex == Execute(orders, approvals, ob, cfg, clock, input)
                left == [orders |-> ex.orders, approvals |-> ex.approvals,
                         obs |-> ex.obs]
            IN IF ex.raised
               THEN left @@ OnToolRaised(log, action)
               ELSE left @@ [log |-> Logged(log, [action EXCEPT
                                                    !.success = TRUE,
                                                    !.output_data = ex.result,
                                                    !.returned = ex.result]),
                             returned |-> ex.result]

\* an agent's cycle calls act(action)
AgentAct ==
    /\ calls.tools < MaxActs
    /\ \E t \in ActionTypes, input \in AgentInputs :
          LET r == Act(action_log, purchase_orders, pending_approvals, obs,
                       settings, now, t, input)
          IN /\ action_log' = r.log
             /\ purchase_orders' = r.orders
             /\ pending_approvals' = r.approvals
             /\ obs' = r.obs
    /\ calls' = [calls EXCEPT !.tools = @ + 1]
    /\ UNCHANGED <<bus, now, settings, stock, running, cycle_count, cyc, lg, mon,
                   tick_count, kpi_len, monitor, kpi_history, kpi_events,
                   safety_stock, run_loops, coordinator,
                   cycle_complete>>

AgentInit == BusInit

AgentNext == AgentAct

AgentSpec == AgentInit /\ [][AgentNext]_vars

\* ------------------------------------------------------------- safety stock
\* Settings.inventory_change_pct_threshold, in percent
InventoryChangePctThreshold == 25

Abs(n) == IF n < 0 THEN 0 - n ELSE n

\* The gate closed already for a change that is on the threshold.
NeedsApproval_OnThreshold(new_value, old_value) ==
    Abs(new_value - old_value) * 100
        >= InventoryChangePctThreshold * Max(old_value, 1)

\* "change_pct = abs(new - old) / max(old, 1) * 100;
\*  if change_pct > settings.inventory_change_pct_threshold", with the
\* division multiplied out
NeedsApproval(new_value, old_value) ==
    Abs(new_value - old_value) * 100
        > InventoryChangePctThreshold * Max(old_value, 1)

\* AdjustSafetyStock.execute: its result, and the safety stocks and approvals
\* map it leaves
AdjustSafetyStock(levels, approvals, product_id, new_safety_stock) ==
    LET same == [levels |-> levels, approvals |-> approvals]
    IN IF new_safety_stock < 0
       THEN same @@ [result |-> [error |-> TRUE, status |-> "error", request_id |-> 0]]
       ELSE IF product_id \notin Products
       THEN same @@ [result |-> [error |-> TRUE, status |-> "error", request_id |-> 0]]
       ELSE LET old_value == levels[product_id]
            IN IF NeedsApproval(new_safety_stock, old_value)
               THEN [levels |-> levels,
                     approvals |->
                        CreateApproval(approvals, "inventory_adjustment",
                                       Abs(new_safety_stock - old_value)
                                          * ProductUnitCost(product_id),
                                       "medium", 0),
                     result |-> [error |-> FALSE, status |-> "pending_approval",
                                 request_id |-> Len(approvals) + 1]]
               ELSE [levels |-> [levels EXCEPT ![product_id] = new_safety_stock],
                     approvals |-> approvals,
                     result |-> [error |-> FALSE, status |-> "applied",
                                 request_id |-> 0]]

AdjustLevels == {0, 4, 8}
AdjustValues == {-1, 0, 1, 5, 6, 10}

\* an agent runs adjust_safety_stock through act
AdjustCall ==
    /\ calls.tools < MaxAdjusts
    /\ \E p \in Products \cup {UnknownProduct}, v \in AdjustValues :
          LET r == AdjustSafetyStock(safety_stock, pending_approvals, p, v)
          IN /\ safety_stock' = r.levels
             /\ pending_approvals' = r.approvals
             /\ action_log' =
                   Logged(action_log,
                          [NewAction("adjust_safety_stock",
                                     [product_id |-> p, new_safety_stock |-> v])
                             EXCEPT !.output_data = r.result,
                                    !.returned = r.result])
    /\ calls' = [calls EXCEPT !.tools = @ + 1]
    /\ UNCHANGED <<bus, now, settings, stock, purchase_orders, running, cycle_count,
                   cyc, lg, mon, tick_count, kpi_len, obs, monitor, kpi_history,
                   kpi_events, run_loops, coordinator,
                   cycle_complete>>

AdjustInit ==
    /\ now = 0
    /\ settings = [auto_approve_below |-> 2, cost_escalation_threshold |-> 3]
    /\ stock = [p \in Products |-> 3]
    /\ purchase_orders = <<>>
    /\ pending_approvals = <<>>
    /\ running = FALSE
    /\ cycle_count = 0
    /\ cyc = [pc |-> "stopped", todo |-> <<>>, consumed |-> {},
              failed |-> FALSE, failures |-> 0]
    /\ lg = [t \in LTasks |-> IdlePass]
    /\ mon = [pc |-> "off"]
    /\ tick_count = 0
    /\ kpi_len = 1
    /\ calls = [triggers |-> 0, decisions |-> 0, tools |-> 0,
                starts |-> 0, stops |-> 0]
    /\ obs = <<>>
    /\ bus = NewBus
    /\ monitor = NewMonitor
    /\ action_log = <<>>
    /\ kpi_history = <<>>
    /\ kpi_events = NoCheck
    /\ safety_stock \in [Products -> AdjustLevels]
    /\ run_loops = <<>>
    /\ coordinator = [cycle_count |-> 0]
    /\ cycle_complete = <<>>

AdjustNext == AdjustCall

AdjustSpec == AdjustInit /\ [][AdjustNext]_vars

\* ------------------------------------------------------------- the KPI engine
\* Rates are in hundredths (0.95 is 95), MAPE in percent, DSI in days.
OtifTarget == 95
FillRateTarget == 97
MapeThreshold == 15
DsiMax == 60
DsiMin == 10
StockoutTolerance == 3
\* "mape = ... if self._history else 12.0"
DefaultMape == 12
\* "order_cycle_time = ... if cycle_times else 7.0"
DefaultCycleTime == 7
\* "... if active_suppliers else 0.02"
DefaultDefectRate == 2

\* Product.daily_demand_avg, Supplier.is_active and .defect_rate
DailyDemandAvg == [p \in Products |-> IF p = "P1" THEN 1 ELSE 2]
ActiveSuppliers == Suppliers
DefectRate == [sup \in Suppliers |-> 2]

\* the orders calculate_snapshot counts as delivered, and those of them that
\* carry both dates
DeliveredOrders(orders) ==
    {j \in DOMAIN orders : orders[j].status = "delivered"}
Dated(orders) ==
    {j \in DeliveredOrders(orders) :
        orders[j].expected_delivery.set /\ orders[j].created_at.set}

\* The MAPE moved by each snapshot instead of carried over.
Mape_Drifting(history) ==
    IF history = <<>> THEN DefaultMape ELSE history[Len(history)].mape + 1

\* "mape = self._history[-1].mape if self._history else 12.0"
Mape(history) ==
    IF history = <<>> THEN DefaultMape ELSE history[Len(history)].mape

\* KPISnapshot(...) as calculate_snapshot builds it: the timestamp is the
\* default of the field, datetime.utcnow() at construction
CalculateSnapshot(stk, orders, history, clock) ==
    LET delivered == DeliveredOrders(orders)
        on_time_in_full == Cardinality(Dated(orders))
        total_demand == SumOver(Products, DailyDemandAvg)
        fulfilled == SumOver(Products,
                             [p \in Products |-> Min(stk[p], DailyDemandAvg[p])])
        total_stock == SumOver(Products, stk)
        total_value == SumOver(Products,
                               [p \in Products |-> stk[p] * ProductUnitCost(p)])
        total_orders == Cardinality({j \in DOMAIN orders :
                                        orders[j].status # "cancelled"})
        perfect == Cardinality({j \in delivered : orders[j].quantity > 0})
        annual_cogs == SumOver(Products,
                               [p \in Products |->
                                   DailyDemandAvg[p] * ProductUnitCost(p) * 365])
        backordered == Cardinality({p \in Products :
                                       stk[p] <= 0 /\ DailyDemandAvg[p] > 0})
    IN [timestamp |-> clock,
        otif |-> (100 * on_time_in_full) \div Max(Cardinality(delivered), 1),
        fill_rate |-> (100 * fulfilled) \div Max(total_demand, 1),
        mape |-> Mape(history),
        dsi |-> total_stock \div Max(total_demand, 1),
        stockout_count |-> Cardinality({p \in Products : stk[p] <= 0}),
        total_inventory_value |-> total_value,
        carrying_cost |-> (total_value * 25) \div 36500,
        order_cycle_time |-> IF Dated(orders) = {} THEN DefaultCycleTime
                             ELSE SumOver(Dated(orders),
                                          [j \in Dated(orders) |->
                                              orders[j].expected_delivery.t
                                                - orders[j].created_at.t])
                                  \div Cardinality(Dated(orders)),
        perfect_order_rate |-> (100 * perfect) \div Max(total_orders, 1),
        inventory_turnover |-> annual_cogs \div Max(total_value, 1),
        backorder_rate |-> (100 * backordered) \div Max(Cardinality(Products), 1),
        supplier_defect_rate |-> IF ActiveSuppliers = {} THEN DefaultDefectRate
                                 ELSE SumOver(ActiveSuppliers, DefectRate)
                                      \div Cardinality(ActiveSuppliers)]

\* what a calculate_snapshot call read: its three arguments (the suppliers
\* never change). Kept beside the snapshot in the model's history entry; the
\* program's KPISnapshot has no such field.
Seen(stk, orders) == [stock |-> stk, orders |-> orders]

\* The history kept to its newest two entries.
AppendSnapshot_Capped(history, stk, orders, clock) ==
    LET all == Append(history,
                      CalculateSnapshot(stk, orders, history, clock)
                         @@ [seen |-> Seen(stk, orders)])
    IN SubSeq(all, Max(1, Len(all) - 1), Len(all))

\* "self._history.append(snapshot)"
AppendSnapshot(history, stk, orders, clock) ==
    Append(history,
           CalculateSnapshot(stk, orders, history, clock)
              @@ [seen |-> Seen(stk, orders)])

\* The comparison that counts a value on its target as a breach.
Under_OrOn(value, target) == value <= target

\* "snapshot.x < settings.x_target", "snapshot.x > settings.x_max"
Under(value, target) == value < target
Over(value, target) == value > target

\* SupplyChainEvent(event_type="kpi_threshold_violated", ...)
Violation(sev, metric, value, target) ==
    [type |-> "kpi_threshold_violated", sev |-> sev, source |-> "kpi_engine",
     metric |-> metric, value |-> value, target |-> target]

\* "if <breach>: events.append(...)"
When(breach, event) == IF breach THEN <<event>> ELSE <<>>

\* KPIEngine.check_thresholds
CheckThresholds(snapshot) ==
    When(Under(snapshot.otif, OtifTarget),
         Violation("high", "otif", snapshot.otif, OtifTarget))
    \o When(Under(snapshot.fill_rate, FillRateTarget),
            Violation("high", "fill_rate", snapshot.fill_rate, FillRateTarget))
    \o When(Over(snapshot.mape, MapeThreshold),
            Violation("medium", "mape", snapshot.mape, MapeThreshold))
    \o When(Over(snapshot.dsi, DsiMax),
            Violation("medium", "dsi", snapshot.dsi, DsiMax))
    \o When(Under(snapshot.dsi, DsiMin),
            Violation("high", "dsi", snapshot.dsi, DsiMin))
    \o When(Over(snapshot.stockout_count, StockoutTolerance),
            Violation("critical", "stockout_count", snapshot.stockout_count,
                      StockoutTolerance))

kpiFrame ==
    <<bus, monitor, settings, pending_approvals, running, cyc, lg, mon, safety_stock, run_loops, coordinator,
                   cycle_complete>>

\* initialize, phase 5: the first snapshot; no threshold check follows
KpiInitialize ==
    /\ kpi_history = <<>>
    /\ ~SnapshotRaises(purchase_orders)
    /\ kpi_history' = AppendSnapshot(kpi_history, stock, purchase_orders, now)
    /\ kpi_len' = kpi_len + 1
    /\ UNCHANGED <<kpiFrame, now, stock, purchase_orders, obs, calls, cycle_count,
                   tick_count, action_log, kpi_events>>

\* run_cycle, step 9: snapshot, then check_thresholds on it
KpiCycle ==
    /\ kpi_history # <<>>
    /\ Len(kpi_history) < MaxSnapshots
    /\ ~SnapshotRaises(purchase_orders)
    /\ kpi_history' = AppendSnapshot(kpi_history, stock, purchase_orders, now)
    /\ kpi_len' = kpi_len + 1
    /\ kpi_events' = [done |-> TRUE,
                      events |-> CheckThresholds(kpi_history'[Len(kpi_history')])]
    /\ cycle_count' = cycle_count + 1
    /\ UNCHANGED <<kpiFrame, now, stock, purchase_orders, obs, calls, tick_count,
                   action_log>>

\* run_cycle, end of step 9: demand is consumed
KpiDemand ==
    /\ kpi_history # <<>>
    /\ \E draw \in [Products -> 0..MaxConsume] :
          /\ stock' = ConsumeLoop(stock, draw, {}).stock
          /\ stock' # stock
    /\ UNCHANGED <<kpiFrame, now, purchase_orders, obs, calls, cycle_count,
                   tick_count, kpi_len, action_log, kpi_history, kpi_events>>

\* a monitor tick: every fifth takes a snapshot and checks the thresholds
KpiTick ==
    /\ kpi_history # <<>>
    /\ tick_count < MaxKpiTicks
    /\ tick_count' = tick_count + 1
    /\ IF tick_count' % 5 = 0 /\ ~SnapshotRaises(purchase_orders)
       THEN /\ Len(kpi_history) < MaxSnapshots
            /\ kpi_history' = AppendSnapshot(kpi_history, stock, purchase_orders, now)
            /\ kpi_len' = kpi_len + 1
            /\ kpi_events' =
                  [done |-> TRUE,
                   events |-> CheckThresholds(kpi_history'[Len(kpi_history')])]
       ELSE UNCHANGED <<kpi_history, kpi_len, kpi_events>>
    /\ UNCHANGED <<kpiFrame, now, stock, purchase_orders, obs, calls, cycle_count,
                   action_log>>

\* an agent creates an order between two snapshots
KpiOrder ==
    /\ kpi_history # <<>>
    /\ Len(purchase_orders) < MaxKpiOrders
    /\ LET r == Act(action_log, purchase_orders, pending_approvals, obs,
                    settings, now, "create_purchase_order",
                    [supplier_id |-> "S1", product_id |-> "P1",
                     quantity |-> 1, unit_cost |-> 1])
       IN /\ action_log' = r.log
          /\ purchase_orders' = r.orders
          /\ pending_approvals' = r.approvals
          /\ obs' = r.obs
    /\ calls' = [calls EXCEPT !.tools = @ + 1]
    /\ UNCHANGED <<bus, monitor, settings, running, cyc, lg, mon, now, stock,
                   cycle_count, tick_count, kpi_len, kpi_history, kpi_events,
                   safety_stock, run_loops, coordinator,
                   cycle_complete>>

\* QueryKPIHistory.execute, called through act: "list(history[-periods:])"
QueryKPIHistory(history, periods) ==
    SubSeq(history, Max(1, Len(history) - periods + 1), Len(history))

KpiQuery ==
    /\ kpi_history # <<>>
    /\ calls.triggers < MaxQueries
    /\ \E periods \in {1, 30} :
          action_log' = Logged(action_log,
                               [NewAction("query_kpi_history", [periods |-> periods])
                                  EXCEPT !.output_data =
                                            QueryKPIHistory(kpi_history, periods)])
    /\ calls' = [calls EXCEPT !.triggers = @ + 1]
    /\ UNCHANGED <<kpiFrame, now, stock, purchase_orders, obs, cycle_count,
                   tick_count, kpi_len, kpi_history, kpi_events>>

\* datetime.utcnow() grows between calls
KpiClock ==
    /\ now < MaxTime
    /\ now' = now + 1
    /\ UNCHANGED <<kpiFrame, stock, purchase_orders, obs, calls, cycle_count,
                   tick_count, kpi_len, action_log, kpi_history, kpi_events>>

\* KPIEngine.__init__: an empty history
KpiInit ==
    /\ now = 0
    /\ settings = [auto_approve_below |-> 2, cost_escalation_threshold |-> 3]
    /\ stock \in [Products -> InitStocks]
    /\ purchase_orders = <<>>
    /\ pending_approvals = <<>>
    /\ running = FALSE
    /\ cycle_count = 0
    /\ cyc = [pc |-> "stopped", todo |-> <<>>, consumed |-> {},
              failed |-> FALSE, failures |-> 0]
    /\ lg = [t \in LTasks |-> IdlePass]
    /\ mon = [pc |-> "off"]
    /\ tick_count = 0
    /\ kpi_len = 0
    /\ calls = [triggers |-> 0, decisions |-> 0, tools |-> 0,
                starts |-> 0, stops |-> 0]
    /\ obs = <<>>
    /\ bus = NewBus
    /\ monitor = NewMonitor
    /\ action_log = <<>>
    /\ kpi_history = <<>>
    /\ kpi_events = NoCheck
    /\ safety_stock = [p \in Products |-> SafetyStock(p)]
    /\ run_loops = <<>>
    /\ coordinator = [cycle_count |-> 0]
    /\ cycle_complete = <<>>

KpiNext ==
    \/ KpiInitialize
    \/ KpiCycle
    \/ KpiDemand
    \/ KpiTick
    \/ KpiOrder
    \/ KpiQuery
    \/ KpiClock

KpiSpec == KpiInit /\ [][KpiNext]_vars

\* ------------------------------------------------------------- check_thresholds
\* metric values on each side of every target, and on it
OtifValues == {OtifTarget - 1, OtifTarget, OtifTarget + 1}
FillRateValues == {FillRateTarget - 1, FillRateTarget, FillRateTarget + 1}
MapeValues == {MapeThreshold - 1, MapeThreshold, MapeThreshold + 1}
DsiValues == {DsiMin - 1, DsiMin, DsiMin + 1, DsiMax - 1, DsiMax, DsiMax + 1}
StockoutValues == {StockoutTolerance - 1, StockoutTolerance, StockoutTolerance + 1}

\* a snapshot with the given values of the five metrics check_thresholds reads
SnapshotWith(o, f, m, d, c) ==
    [CalculateSnapshot([p \in Products |-> 3], <<>>, <<>>, 0)
        EXCEPT !.otif = o, !.fill_rate = f, !.mape = m, !.dsi = d,
               !.stockout_count = c]
      @@ [seen |-> Seen([p \in Products |-> 3], <<>>)]

ThresholdInit ==
    /\ now = 0
    /\ settings = [auto_approve_below |-> 2, cost_escalation_threshold |-> 3]
    /\ stock = [p \in Products |-> 3]
    /\ purchase_orders = <<>>
    /\ pending_approvals = <<>>
    /\ running = FALSE
    /\ cycle_count = 0
    /\ cyc = [pc |-> "stopped", todo |-> <<>>, consumed |-> {},
              failed |-> FALSE, failures |-> 0]
    /\ lg = [t \in LTasks |-> IdlePass]
    /\ mon = [pc |-> "off"]
    /\ tick_count = 0
    /\ kpi_len = 1
    /\ calls = [triggers |-> 0, decisions |-> 0, tools |-> 0,
                starts |-> 0, stops |-> 0]
    /\ obs = <<>>
    /\ bus = NewBus
    /\ monitor = NewMonitor
    /\ action_log = <<>>
    /\ \E o \in OtifValues, f \in FillRateValues, m \in MapeValues,
          d \in DsiValues, c \in StockoutValues :
          kpi_history = <<SnapshotWith(o, f, m, d, c)>>
    /\ kpi_events = NoCheck
    /\ safety_stock = [p \in Products |-> SafetyStock(p)]
    /\ run_loops = <<>>
    /\ coordinator = [cycle_count |-> 0]
    /\ cycle_complete = <<>>

\* check_thresholds(snapshot) on the newest snapshot
ThresholdCheck ==
    /\ ~kpi_events.done
    /\ kpi_events' = [done |-> TRUE,
                      events |-> CheckThresholds(kpi_history[Len(kpi_history)])]
    /\ UNCHANGED <<kpiFrame, now, stock, purchase_orders, obs, calls, cycle_count,
                   tick_count, kpi_len, action_log, kpi_history>>

ThresholdNext == ThresholdCheck

ThresholdSpec == ThresholdInit /\ [][ThresholdNext]_vars

\* ------------------------------------------------------------- the monitor tick
\* stock levels the other tasks leave: none, low for P2, overstock
MonStockLevels == {0, 1, 10}

\* SupplyChainEvent as the monitor builds it
MonEvent(type, sev, product, stk, tick) ==
    [type |-> type, sev |-> sev, product |-> product, stock |-> stk, tick |-> tick]

InventoryTypes == {"stockout_alert", "low_stock_alert", "overstock_alert"}

\* The three tests made independently of each other.
InventoryAlert_Independent(p, s) ==
    (IF s <= 0 THEN <<MonEvent("stockout_alert", "critical", p, s, 0)>> ELSE <<>>)
    \o (IF s < SafetyStock(p)
        THEN <<MonEvent("low_stock_alert", "high", p, s, 0)>> ELSE <<>>)
    \o (IF s > ReorderPoint(p) * 3
        THEN <<MonEvent("overstock_alert", "medium", p, s, 0)>> ELSE <<>>)

\* tick, section 1, for one product: the if / elif / elif chain
InventoryAlert(p, s) ==
    IF s <= 0 THEN <<MonEvent("stockout_alert", "critical", p, s, 0)>>
    ELSE IF s < SafetyStock(p) THEN <<MonEvent("low_stock_alert", "high", p, s, 0)>>
    ELSE IF s > ReorderPoint(p) * 3
         THEN <<MonEvent("overstock_alert", "medium", p, s, 0)>>
    ELSE <<>>

\* The KPI section run on every tick.
KpiDue_EveryTick(n) == TRUE

\* "if self._tick_count % 5 == 0"
KpiDue(n) == n % 5 = 0

\* n copies of an event
Repeat(ev, n) == [k \in 1..n |-> ev]

\* the monitor between two ticks, and at its start
MonIdle ==
    [pc |-> "idle", i |-> 1, events |-> <<>>, seen |-> [p \in Products |-> 0],
     todo |-> 0, violations |-> 0, kpi0 |-> 0, raised |-> FALSE]

\* tick raises: _loop logs monitor_tick_error and goes round again
TickRaised(m) == [m EXCEPT !.pc = "idle", !.raised = TRUE]

monFrame == <<bus, aux, now, settings, pending_approvals, running, cycle_count, cyc,
              lg, calls>>

\* tick: the counter is advanced
TickBegin ==
    /\ mon.pc = "idle"
    /\ tick_count < MaxMonTicks
    /\ tick_count' = tick_count + 1
    /\ mon' = [MonIdle EXCEPT !.pc = "inventory", !.kpi0 = kpi_len]
    /\ UNCHANGED <<monFrame, stock, purchase_orders, obs, kpi_len>>

\* section 1, one product
TickInventory ==
    /\ mon.pc = "inventory"
    /\ LET p == ProductList[mon.i]
       IN mon' = [mon EXCEPT !.events = @ \o InventoryAlert(p, stock[p]),
                             !.seen[p] = stock[p],
                             !.i = @ + 1,
                             !.pc = IF mon.i = Len(ProductList)
                                    THEN "kpi" ELSE "inventory"]
    /\ UNCHANGED <<monFrame, stock, purchase_orders, obs, kpi_len, tick_count>>

\* section 2: on a due tick the snapshot is taken and its violations listed
TickKpi ==
    /\ mon.pc = "kpi"
    /\ \E n \in 0..MaxViolations :
          IF ~KpiDue(tick_count)
          THEN /\ mon' = [mon EXCEPT !.pc = "delay"]
               /\ UNCHANGED kpi_len
          ELSE IF SnapshotRaises(purchase_orders)
          THEN /\ mon' = TickRaised(mon)
               /\ UNCHANGED kpi_len
          ELSE /\ mon' = [mon EXCEPT !.pc = "violations", !.todo = n,
                                     !.violations = n]
               /\ kpi_len' = kpi_len + 1
    /\ UNCHANGED <<monFrame, stock, purchase_orders, obs, tick_count>>

\* section 2: one violation is published
TickViolation ==
    /\ mon.pc = "violations"
    /\ mon.todo > 0
    /\ mon' = [mon EXCEPT
                 !.events = Append(@, MonEvent("kpi_threshold_violated", "high",
                                               "", 0, 0)),
                 !.todo = @ - 1]
    /\ UNCHANGED <<monFrame, stock, purchase_orders, obs, kpi_len, tick_count>>

\* section 2: the snapshot event is published
TickSnapshotEvent ==
    /\ mon.pc = "violations"
    /\ mon.todo = 0
    /\ mon' = [mon EXCEPT
                 !.events = Append(@, MonEvent("kpi_snapshot_created", "low",
                                               "", 0, 0)),
                 !.pc = "delay"]
    /\ UNCHANGED <<monFrame, stock, purchase_orders, obs, kpi_len, tick_count>>

\* "delay_days = (now - po.expected_delivery).days"
DelayDays(po, nowdt) == nowdt.t - po.expected_delivery.t

\* "AlertSeverity.HIGH if delay_days > 3 else AlertSeverity.MEDIUM"
DelaySeverity(delay_days) == IF delay_days > 3 THEN "high" ELSE "medium"

\* the delivery_delayed event of order j
DelayEvent(orders, j, nowdt) ==
    [type |-> "delivery_delayed",
     sev |-> DelaySeverity(DelayDays(orders[j], nowdt)),
     product |-> orders[j].product_id, stock |-> 0, tick |-> 0,
     po_id |-> j, delay_days |-> DelayDays(orders[j], nowdt)]

\* the delivery_delayed events of the orders found late, in list order
DelayedEvents(orders, nowdt) ==
    LET late == SelectSeq(ActiveOrders(orders),
                          LAMBDA j : DelayCheck(orders[j], nowdt) = "True")
    IN [k \in DOMAIN late |-> DelayEvent(orders, late[k], nowdt)]

\* section 3: the delivery-delay scan
TickDelayScan ==
    /\ mon.pc = "delay"
    /\ mon' = IF MonitorDelayRaises(purchase_orders, NaiveDt(now))
              THEN TickRaised(mon)
              ELSE [mon EXCEPT
                      !.events = @ \o DelayedEvents(purchase_orders, NaiveDt(now)),
                      !.pc = "anomaly"]
    /\ UNCHANGED <<monFrame, stock, purchase_orders, obs, kpi_len, tick_count>>

\* section 4: every 3rd tick the anomalies found are published
TickAnomaly ==
    /\ mon.pc = "anomaly"
    /\ \E n \in 0..MaxAnomalies :
          mon' = [mon EXCEPT
                    !.events = IF tick_count % 3 = 0
                               THEN @ \o Repeat(MonEvent("anomaly_detected", "medium",
                                                         "", 0, 0), n)
                               ELSE @,
                    !.pc = "tick_event"]
    /\ UNCHANGED <<monFrame, stock, purchase_orders, obs, kpi_len, tick_count>>

\* the tick event, then the sleep of _loop
TickEvent ==
    /\ mon.pc = "tick_event"
    /\ mon' = [mon EXCEPT
                 !.events = Append(@, MonEvent("tick", "low", "", 0, tick_count)),
                 !.pc = "idle"]
    /\ UNCHANGED <<monFrame, stock, purchase_orders, obs, kpi_len, tick_count>>

\* while the tick is suspended the cycle's consumption lowers a product's stock
OtherTaskStock ==
    /\ \E p \in Products, v \in MonStockLevels :
          /\ v < stock[p]
          /\ stock' = [stock EXCEPT ![p] = v]
    /\ UNCHANGED <<monFrame, mon, purchase_orders, obs, kpi_len, tick_count>>

\* while the tick is suspended the cycle creates an auto-approved order
OtherTaskOrder ==
    /\ purchase_orders = <<>>
    /\ LET made == CreatePurchaseOrder(purchase_orders, pending_approvals, obs,
                                       settings, now, "S1", "P1", 3, 1)
       IN /\ purchase_orders' = made.orders
          /\ obs' = made.obs
    /\ UNCHANGED <<monFrame, mon, stock, kpi_len, tick_count>>

\* time passes between two steps of the tick
TickClock ==
    /\ now < MaxMonTime
    /\ now' = now + 1
    /\ UNCHANGED <<bus, aux, settings, stock, purchase_orders, pending_approvals, running,
                   cycle_count, cyc, lg, mon, tick_count, kpi_len, calls, obs>>

\* the monitor as run_loop has started it, the first cycle under way
MonInit ==
    /\ now = 0
    /\ settings = [auto_approve_below |-> 4, cost_escalation_threshold |-> 6]
    /\ stock \in [Products -> MonStockLevels]
    /\ purchase_orders = <<>>
    /\ pending_approvals = <<>>
    /\ running = TRUE
    /\ cycle_count = 1
    /\ cyc = [pc |-> "scan", todo |-> <<>>, consumed |-> {},
              failed |-> FALSE, failures |-> 0]
    /\ lg = [t \in LTasks |-> IdlePass]
    /\ mon = MonIdle
    /\ tick_count = 0
    /\ kpi_len = 1
    /\ calls = [triggers |-> 0, decisions |-> 0, tools |-> 0,
                starts |-> 1, stops |-> 0]
    /\ obs = <<>>
    /\ bus = NewBus
    /\ monitor = NewMonitor
    /\ action_log = <<>>
    /\ kpi_history = <<>>
    /\ kpi_events = NoCheck
    /\ safety_stock = [p \in Products |-> SafetyStock(p)]
    /\ run_loops = <<>>
    /\ coordinator = [cycle_count |-> 0]
    /\ cycle_complete = <<>>

MonNext ==
    \/ TickBegin
    \/ TickInventory
    \/ TickKpi
    \/ TickViolation
    \/ TickSnapshotEvent
    \/ TickDelayScan
    \/ TickAnomaly
    \/ TickEvent
    \/ OtherTaskStock
    \/ OtherTaskOrder
    \/ TickClock

MonitorSpec == MonInit /\ [][MonNext]_vars

\* ------------------------------------------------------------- claims
\* the purchase_order requests registered for order j
RequestsOf(j) ==
    {r \in DOMAIN pending_approvals :
        /\ pending_approvals[r].request_type = "purchase_order"
        /\ pending_approvals[r].po_id = j}

\* no logistics pass is in flight
Quiescent == \A t \in LTasks : lg[t].pc = "idle"

\* this step appended an order
Created == Len(purchase_orders') = Len(purchase_orders) + 1
NewOrder == purchase_orders'[Len(purchase_orders')]
NewRequest == pending_approvals'[Len(pending_approvals')]

C2_AutoApproved ==
    [][(Created /\ NewOrder.quantity * NewOrder.unit_cost
                      < settings.auto_approve_below)
        => /\ NewOrder.total_cost = NewOrder.quantity * NewOrder.unit_cost
           /\ NewOrder.approval_status = "auto_approved"
           /\ NewOrder.status = "approved"
           /\ pending_approvals' = pending_approvals]_vars

C2_Witness ==
    \E j \in DOMAIN purchase_orders :
        /\ calls.tools > 0
        /\ purchase_orders[j].total_cost < settings.auto_approve_below
        /\ purchase_orders[j].approval_status = "auto_approved"
        /\ RequestsOf(j) = {}

\* the new order is pending and exactly one request, of this risk, was added
PendingWithOneRequest(risk) ==
    /\ NewOrder.approval_status = "pending"
    /\ Len(pending_approvals') = Len(pending_approvals) + 1
    /\ SubSeq(pending_approvals', 1, Len(pending_approvals)) = pending_approvals
    /\ NewRequest.risk_level = risk
    /\ NewRequest.status = "pending"
    /\ NewRequest.po_id = NewOrder.po_id

\* C3 as stated: for every setting, a successful call with total_cost >=
\* cost_escalation_threshold leaves the order pending with exactly one new
\* high-risk request, and one with total_cost neither below auto_approve_below
\* nor at/above the escalation threshold leaves it pending with exactly one new
\* medium-risk request.
C3_Original ==
    [][Created =>
        /\ NewOrder.total_cost >= settings.cost_escalation_threshold
              => PendingWithOneRequest("high")
        /\ (/\ ~(NewOrder.total_cost < settings.auto_approve_below)
            /\ ~(NewOrder.total_cost >= settings.cost_escalation_threshold))
              => PendingWithOneRequest("medium")]_vars

\* C3, amended: the high-risk escalation applies when total_cost >=
\* cost_escalation_threshold and total_cost is not below auto_approve_below
\* (the auto-approve test comes first); the medium band is as stated.
C3_Escalation ==
    [][Created =>
        /\ (/\ ~(NewOrder.total_cost < settings.auto_approve_below)
            /\ NewOrder.total_cost >= settings.cost_escalation_threshold)
              => PendingWithOneRequest("high")
        /\ (/\ ~(NewOrder.total_cost < settings.auto_approve_below)
            /\ ~(NewOrder.total_cost >= settings.cost_escalation_threshold))
              => PendingWithOneRequest("medium")]_vars

C3_Witness ==
    \E j \in DOMAIN purchase_orders, r \in DOMAIN pending_approvals :
        /\ calls.tools > 0
        /\ purchase_orders[j].total_cost = settings.cost_escalation_threshold
        /\ purchase_orders[j].approval_status = "pending"
        /\ r \in RequestsOf(j)
        /\ pending_approvals[r].risk_level = "high"

\* C4: an order whose approval is pending and whose request no decision call
\* has approved is in status pending and has credited no stock.
C4_PendingStaysPending ==
    \A j \in DOMAIN purchase_orders :
        (/\ purchase_orders[j].approval_status = "pending"
         /\ \A r \in RequestsOf(j) : pending_approvals[r].status # "approved")
        => /\ purchase_orders[j].status = "pending"
           /\ obs[j].credits = 0

C4_Witness ==
    \E j \in DOMAIN purchase_orders :
        /\ purchase_orders[j].approval_status = "pending"
        /\ RequestsOf(j) # {}
        /\ \A r \in RequestsOf(j) : pending_approvals[r].status # "approved"
        /\ purchase_orders[j].status = "pending"
        /\ obs[j].due_passes >= 1
        /\ cycle_count >= 2
        /\ tick_count >= 1

\* C5: a request that a decision call has approved or rejected is never
\* changed again (status, decided_at, decided_by, reason).
C5_DecidedOnce ==
    [][\A r \in DOMAIN pending_approvals :
          pending_approvals[r].status \in {"approved", "rejected"}
          => pending_approvals'[r] = pending_approvals[r]]_vars

\* C6: once the request registered for an order is approved (rejected), the
\* order's approval_status is approved (rejected).
C6_ApprovalMirrored ==
    \A j \in DOMAIN purchase_orders : \A r \in RequestsOf(j) :
        pending_approvals[r].status \in {"approved", "rejected"}
        => purchase_orders[j].approval_status = pending_approvals[r].status

\* C7: an order whose request is approved leaves pending once the cycle goes
\* on: after a logistics pass that began with the request approved has
\* completed, the order is approved, shipped or delivered.
C7_ApprovedLeavesPending ==
    \A j \in DOMAIN purchase_orders :
        (Quiescent /\ obs[j].appr_passes >= 1)
        => purchase_orders[j].status \in {"approved", "shipped", "delivered"}


\* the next status of the chain pending -> approved -> shipped -> delivered
Succ(status) ==
    CASE status = "pending" -> "approved"
      [] status = "approved" -> "shipped"
      [] status = "shipped" -> "delivered"
      [] OTHER -> status

C10_NoHalfAppliedMutation ==
    /\ \A j \in DOMAIN purchase_orders :
          /\ purchase_orders[j].product_id \in Products =>
                (purchase_orders[j].status = "delivered" <=> obs[j].credits = 1)
          /\ purchase_orders[j].approval_status = "pending" =>
                Cardinality(RequestsOf(j)) = 1
    /\ cyc.consumed \in {{}, Products}

C10_Witness ==
    /\ cyc.consumed = Products
    /\ mon.pc = "alerts"
    /\ lg["manual"].pc = "tail"
    /\ \E j \in DOMAIN purchase_orders :
          /\ purchase_orders[j].approval_status = "pending"
          /\ RequestsOf(j) # {}


\* how many times h occurs in a list of handlers
Count(seq, h) == Cardinality({k \in DOMAIN seq : seq[k] = h})

\* this step is a call of publish, and the event it published
Published == Len(bus'.event_log) = Len(bus.event_log) + 1
PublishedEvent == bus'.event_log[Len(bus'.event_log)]
\* a publish has ended (returned or raised) and none is in flight
PublishEnded == bus.pc = "idle" /\ bus.event # ""

\* C11: whichever of the matched handlers raise, publish creates an invocation
\* for every matched handler and ends by returning: it never raises.
C11_HandlerIsolation ==
    /\ [](PublishEnded => bus.outcome = "returned")
    /\ [][Published =>
            Len(bus'.tasks) = Len(bus.subscribers[PublishedEvent])
                                + Len(bus.all_subscribers)]_vars

C11_Witness ==
    /\ PublishEnded
    /\ bus.outcome = "returned"
    /\ \E k \in DOMAIN bus.tasks : bus.tasks[k].st = "logged"
    /\ \E k \in DOMAIN bus.tasks : bus.tasks[k].st = "done"

\* C12: publish is a barrier: while a handler invocation of the event is still
\* running publish has not ended, so when publish has ended every invocation has
\* completed or failed.
C12_PublishBarrier ==
    /\ PublishEnded => \A k \in DOMAIN bus.tasks : bus.tasks[k].st # "suspended"
    /\ (\E k \in DOMAIN bus.tasks : bus.tasks[k].st = "suspended")
          => (bus.pc = "gather" /\ bus.outcome = "none")

C12_Witness ==
    /\ PublishEnded
    /\ bus.outcome = "returned"
    /\ \E k \in DOMAIN bus.tasks : bus.tasks[k].waited
    /\ \E k \in DOMAIN bus.tasks : ~bus.tasks[k].waited

\* C13: publish appends the event to the log, then invokes each handler once
\* per registration under the event's type and once per wildcard registration,
\* and no handler registered only under other types.
C13_MatchedHandlersInvoked ==
    [][Published =>
        /\ bus'.event_log = Append(bus.event_log, PublishedEvent)
        /\ bus'.logged
        /\ \A h \in Handlers :
              Count([k \in DOMAIN bus'.tasks |-> bus'.tasks[k].h], h)
                  = Count(bus.subscribers[PublishedEvent], h)
                      + Count(bus.all_subscribers, h)]_vars

C13_Witness ==
    /\ bus.event = "po_created"
    /\ Count(bus.subscribers["po_created"], "coordinator") = 1
    /\ Count(bus.all_subscribers, "coordinator") = 1
    /\ Count([k \in DOMAIN bus.tasks |-> bus.tasks[k].h], "coordinator") = 2
    /\ Count(bus.subscribers["low_stock_alert"], "inventory_optimizer") = 1
    /\ Count([k \in DOMAIN bus.tasks |-> bus.tasks[k].h], "inventory_optimizer") = 0


\* the order of the stages of run_cycle, as positions of the loop task
StageOrder ==
    <<"scan", "forecast", "inventory", "procure", "logistics", "plan", "coord",
      "report", "kpi", "persist", "sleep">>
StageSteps == {<<StageOrder[k], StageOrder[k + 1]>> : k \in 1..(Len(StageOrder) - 1)}
\* a stage that raises ends the cycle; the loop starts, restarts and exits
LoopSteps ==
    {<<"stopped", "created">>, <<"created", "scan">>, <<"sleep", "scan">>,
     <<"sleep", "stopped">>}
        \cup {<<StageOrder[k], "sleep">> : k \in 1..(Len(StageOrder) - 1)}

\* C14: within a cycle the stages run in the fixed order scan, forecasting,
\* inventory + risk, procurement, logistics, planning, coordination, reporting,
\* KPI + persistence, each beginning only when the previous one has ended; in
\* the last stage the snapshot is taken first, the violations are published
\* before persist_cycle, and demand is consumed only after persist_cycle.
C14_StagesInOrder ==
    [][/\ cyc'.pc # cyc.pc => <<cyc.pc, cyc'.pc>> \in StageSteps \cup LoopSteps
       /\ (kpi_len' # kpi_len /\ cyc'.pc # cyc.pc)
             => (cyc.pc = "report" /\ cyc'.pc = "kpi")
       /\ (\E p \in Products : stock'[p] < stock[p])
             => (cyc.pc = "persist" /\ cyc'.pc = "sleep")]_vars

C14_Witness ==
    /\ cyc.pc = "sleep"
    /\ ~cyc.failed
    /\ cyc.consumed = Products
    /\ kpi_len = 2
    /\ \E p \in Products : stock[p] < 3 /\ stock[p] \in InitStocks

\* C15: a cycle that raises never ends the loop: while the loop has not been
\* stopped its task is alive, and after the failed cycle it sleeps and then
\* starts another cycle.
C15_FailedCycleContinues ==
    /\ [](running => cyc.pc # "stopped")
    /\ \A n \in 1..(MaxCycles - 1) :
          (cyc.pc = "sleep" /\ cyc.failed /\ cycle_count = n)
              ~> (cycle_count = n + 1 \/ ~running)

C15_Witness ==
    /\ running
    /\ cyc.failures = 1
    /\ ~cyc.failed
    /\ cycle_count = 2
    /\ cyc.pc = "forecast"

\* C16: once stop_loop has cleared the flag (and no start follows) the loop
\* begins no new cycle, and after the cycle in progress it terminates.
C16_StopLoop ==
    /\ [][(~running /\ cyc.pc \notin {"stopped", "created"})
             => cycle_count' = cycle_count]_vars
    /\ (~running /\ cyc.pc \notin {"stopped", "created"})
          ~> (cyc.pc = "stopped")

C16_Witness ==
    /\ ~running
    /\ calls.stops = 1
    /\ calls.starts = 1
    /\ cyc.pc = "stopped"
    /\ cycle_count = 1
    /\ cyc.consumed = Products

\* C17: undecided approval requests block nothing: while a request is pending
\* no cycle fails, and an auto-approved order that a completed logistics pass
\* has tracked has been moved on to shipped or delivered.
C17_ApprovalNonBlocking ==
    (\E r \in DOMAIN pending_approvals : pending_approvals[r].status = "pending")
    => /\ cyc.failures = 0
       /\ \A j \in DOMAIN purchase_orders :
             (/\ Quiescent
              /\ purchase_orders[j].approval_status = "auto_approved"
              /\ obs[j].passes >= 1)
             => purchase_orders[j].status \in {"shipped", "delivered"}


\* the events of the current tick that have one of the given types
TickEventsOf(types) == SelectSeq(mon.events, LAMBDA ev : ev.type \in types)
\* the inventory alerts of the current tick for product p
AlertsFor(p) ==
    SelectSeq(mon.events, LAMBDA ev : ev.type \in InventoryTypes /\ ev.product = p)
\* the tick has read p's stock
Scanned(p) == \E k \in 1..(mon.i - 1) : ProductList[k] = p
\* the one alert of p in this tick, with the stock it read
OneAlert(p, type, sev) ==
    AlertsFor(p) = <<MonEvent(type, sev, p, mon.seen[p], 0)>>

\* C18: in every tick, for every product, the monitor publishes at most one
\* inventory alert, chosen by the stock it read: <= 0 stockout_alert
\* (critical), else below safety_stock low_stock_alert (high), else above
\* 3 x reorder_point overstock_alert (medium), else none; a product not yet
\* read in the tick has no alert.
C18_OneInventoryAlert ==
    \A p \in Products :
        /\ Len(AlertsFor(p)) <= 1
        /\ ~Scanned(p) => AlertsFor(p) = <<>>
        /\ Scanned(p) =>
             CASE mon.seen[p] <= 0 -> OneAlert(p, "stockout_alert", "critical")
               [] mon.seen[p] > 0 /\ mon.seen[p] < SafetyStock(p)
                    -> OneAlert(p, "low_stock_alert", "high")
               [] mon.seen[p] >= SafetyStock(p) /\ mon.seen[p] > 3 * ReorderPoint(p)
                    -> OneAlert(p, "overstock_alert", "medium")
               [] OTHER -> AlertsFor(p) = <<>>

C18_Witness ==
    /\ mon.pc = "kpi"
    /\ mon.seen["P1"] = 0
    /\ AlertsFor("P1") = <<MonEvent("stockout_alert", "critical", "P1", 0, 0)>>
    /\ mon.seen["P2"] = 1
    /\ AlertsFor("P2") = <<MonEvent("low_stock_alert", "high", "P2", 1, 0)>>

\* C19: every tick that has ended published exactly one tick event, as its
\* last event and carrying the tick's number.
C19_TickEventAlways ==
    (mon.pc = "idle" /\ tick_count >= 1)
    => /\ mon.events # <<>>
       /\ mon.events[Len(mon.events)] = MonEvent("tick", "low", "", 0, tick_count)
       /\ Len(TickEventsOf({"tick"})) = 1

\* the tick is past its KPI section
PastKpi == tick_count >= 1 /\ mon.pc \in {"delay", "anomaly", "tick_event", "idle"}

\* C20: on a tick whose number is a multiple of 5 the monitor takes one
\* snapshot, publishes each of its violations and then one
\* kpi_snapshot_created event; on any other tick it takes no snapshot and
\* publishes neither.
C20_KpiEveryFifthTick ==
    LET kpiEvents == TickEventsOf({"kpi_threshold_violated", "kpi_snapshot_created"})
    IN /\ (tick_count % 5 # 0 \/ tick_count = 0)
            => (kpiEvents = <<>> /\ kpi_len = IF tick_count = 0 THEN 1 ELSE mon.kpi0)
       /\ (tick_count % 5 = 0 /\ PastKpi)
            => /\ kpi_len = mon.kpi0 + 1
               /\ Len(kpiEvents) = mon.violations + 1
               /\ \A k \in 1..mon.violations :
                     kpiEvents[k].type = "kpi_threshold_violated"
               /\ kpiEvents[mon.violations + 1].type = "kpi_snapshot_created"
       /\ Len(TickEventsOf({"kpi_snapshot_created"})) <= 1
       /\ kpi_len <= mon.kpi0 + 1 \/ tick_count = 0

C20_Witness ==
    /\ tick_count = 5
    /\ mon.pc = "idle"
    /\ ~mon.raised
    /\ mon.violations = 2
    /\ \E k \in 2..Len(mon.events) :
          /\ mon.events[k].type = "kpi_snapshot_created"
          /\ mon.events[k - 1].type = "kpi_threshold_violated"

\* C22: when stop returns, every loop task that start had created before stop
\* was called has ended, and from then on none of them publishes an event.
C22_StopAwaitsTeardown ==
    [][monitor'.stop.pc = "returned"
       => \A t \in 1..monitor'.stop.seen :
             /\ monitor'.loops[t].pc = "done"
             /\ monitor.stop.pc = "returned"
                  => monitor'.loops[t].n = monitor.loops[t].n]_vars

\* C23: a handler that has begun to handle an event is never cancelled: once
\* dispatched it runs to its end, also when stop is called during the publish.
C23_HandlersNotInterrupted ==
    \A k \in DOMAIN bus.tasks : bus.tasks[k].st # "cancelled"

Acted == calls'.tools = calls.tools + 1
\* the action it ran, as logged
LastAction == action_log'[Len(action_log')]

\* C25: create_purchase_order called with a quantity <= 0 or a unit_cost < 0
\* returns an error result and leaves the order list, the approvals map and
\* the stock of every product as they were.
C25_InvalidInputRejected ==
    [][(/\ Acted
        /\ Len(action_log') = Len(action_log) + 1
        /\ LastAction.action_type = "create_purchase_order"
        /\ LastAction.input_data.supplier_id # Missing
        /\ \/ LastAction.input_data.quantity <= 0
           \/ LastAction.input_data.unit_cost < 0)
       => /\ LastAction.returned = ErrorResult
          /\ purchase_orders' = purchase_orders
          /\ pending_approvals' = pending_approvals
          /\ stock' = stock]_vars

C25_Witness ==
    /\ Len(action_log) = 2
    /\ action_log[1].returned.po_id = 1
    /\ action_log[2].input_data.quantity = 0
    /\ action_log[2].input_data.supplier_id = "S1"
    /\ action_log[2].returned = ErrorResult
    /\ Len(purchase_orders) = 1

\* C26: every act call returns: an action naming a tool the agent lacks, or
\* whose tool raises, is appended to the action log with success false and an
\* error, and act returns an error result for it.
C26_ToolFailureContained ==
    [][Acted
       => /\ Len(action_log') = Len(action_log) + 1
          /\ (\/ LastAction.action_type \notin AgentTools
              \/ LastAction.input_data.supplier_id = Missing)
             => /\ LastAction.success = FALSE
                /\ LastAction.error # "None"
                /\ LastAction.returned = ErrorResult
                /\ purchase_orders' = purchase_orders]_vars

C26_Witness ==
    /\ Len(action_log) = 2
    /\ action_log[1].action_type = "no_such_tool"
    /\ action_log[1].success = FALSE
    /\ action_log[2].action_type = "create_purchase_order"
    /\ action_log[2].input_data.supplier_id = Missing
    /\ action_log[2].error = "exception"

\* the metric fields of a snapshot: all but its timestamp
Metrics(snap) ==
    [f \in DOMAIN snap \ {"timestamp", "seen"} |-> snap[f]]

\* C28: the KPI history is append-only: a calculate_snapshot call, from
\* initialization, from the cycle's last stage or from the monitor's fifth
\* tick, puts exactly one snapshot at the end of the history, and every step
\* of the system leaves the entries already there as they are, in their order.
C28_HistoryAppendOnly ==
    [][/\ \/ kpi_history' = kpi_history
          \/ /\ Len(kpi_history') = Len(kpi_history) + 1
             /\ SubSeq(kpi_history', 1, Len(kpi_history)) = kpi_history
       /\ (\/ (kpi_len = 0 /\ kpi_len' = 1)
           \/ cycle_count' # cycle_count
           \/ (tick_count' # tick_count /\ tick_count' % 5 = 0))
             <=> Len(kpi_history') = Len(kpi_history) + 1]_vars

C28_Witness ==
    /\ Len(kpi_history) = 3
    /\ cycle_count = 1
    /\ tick_count = 5
    /\ kpi_history[1].stockout_count # kpi_history[3].stockout_count
    /\ \E i \in DOMAIN action_log :
          /\ action_log[i].action_type = "query_kpi_history"
          /\ Len(action_log[i].output_data) = 2

\* the conditions check_thresholds tests, as (metric, value, target), that the
\* snapshot breaches
Breached(snap) ==
    {b \in {<<"otif", snap.otif, OtifTarget>>,
             <<"fill_rate", snap.fill_rate, FillRateTarget>>} : b[2] < b[3]}
    \cup {b \in {<<"mape", snap.mape, MapeThreshold>>,
                  <<"dsi", snap.dsi, DsiMax>>,
                  <<"stockout_count", snap.stockout_count, StockoutTolerance>>} :
             b[2] > b[3]}
    \cup {b \in {<<"dsi", snap.dsi, DsiMin>>} : b[2] < b[3]}

\* C29: check_thresholds returns one violation event for each breached
\* condition (OTIF below 0.95, fill rate below 0.97, MAPE above 15, DSI above
\* 60, DSI below 10, stockout count above 3) and no other event; each carries
\* the metric's name, the observed value and the target; a metric equal to its
\* target is not a breach.
C29_OneViolationPerBreach ==
    kpi_events.done =>
       LET snap == kpi_history[Len(kpi_history)]
           ev == kpi_events.events
       IN /\ {<<ev[i].metric, ev[i].value, ev[i].target>> : i \in DOMAIN ev}
                = Breached(snap)
          /\ Len(ev) = Cardinality(Breached(snap))
          /\ \A i \in DOMAIN ev : ev[i].type = "kpi_threshold_violated"

C29_Witness ==
    /\ kpi_events.done
    /\ kpi_history[Len(kpi_history)].otif = OtifTarget
    /\ kpi_history[Len(kpi_history)].fill_rate = FillRateTarget - 1
    /\ kpi_history[Len(kpi_history)].mape = MapeThreshold
    /\ kpi_history[Len(kpi_history)].dsi = DsiMin - 1
    /\ kpi_history[Len(kpi_history)].stockout_count = StockoutTolerance + 1
    /\ Len(kpi_events.events) = 3

\* C30 as stated: two calculate_snapshot calls that read the same products,
\* purchase orders and suppliers return the same snapshot.
C30_SameInputsSameSnapshot ==
    \A i, j \in DOMAIN kpi_history :
       kpi_history[i].seen = kpi_history[j].seen
          => kpi_history[i] = kpi_history[j]

\* C30: two calculate_snapshot calls that read the same products, purchase
\* orders and suppliers return snapshots equal in every metric, whatever the
\* history held at each call; their timestamps are the times of the calls.
C30_SameInputsSameMetrics ==
    \A i, j \in DOMAIN kpi_history :
       kpi_history[i].seen = kpi_history[j].seen
          => Metrics(kpi_history[i]) = Metrics(kpi_history[j])

C30_Witness ==
    /\ Len(kpi_history) = 3
    /\ kpi_history[1].seen = kpi_history[2].seen
    /\ kpi_history[1].timestamp # kpi_history[2].timestamp
    /\ kpi_history[3].seen # kpi_history[2].seen
    /\ kpi_history[3].fill_rate # kpi_history[2].fill_rate

\* the step delivers an order of product p
Delivers(p) ==
    \E j \in DOMAIN purchase_orders :
       /\ purchase_orders[j].product_id = p
       /\ purchase_orders[j].status = "shipped"
       /\ purchase_orders'[j].status = "delivered"

\* C27: a product's stock decreases only in the demand consumption that ends
\* the cycle's last stage, after persist_cycle, and never goes below 0; any
\* other step leaves it unchanged or, when it delivers an order of the
\* product, increases it.
C27_StockDecreasesOnlyByDemand ==
    [][\A p \in Products :
         /\ stock'[p] >= 0
         /\ stock'[p] < stock[p] => (cyc.pc = "persist" /\ cyc'.pc = "sleep")
         /\ stock'[p] > stock[p] => Delivers(p)]_vars

C27_Witness ==
    /\ cyc.pc = "sleep"
    /\ cyc.consumed = Products
    /\ cycle_count >= 1
    /\ stock["P1"] = 0
    /\ stock["P2"] = 1

\* the orders the delay scan finds active and past their expected delivery
DueOrders ==
    {j \in DOMAIN purchase_orders :
        /\ IsActive(purchase_orders[j])
        /\ purchase_orders[j].expected_delivery.set
        /\ purchase_orders[j].expected_delivery.t < now}

\* the delivery_delayed events of the tick for order j, after the step
DelayedFor(j) ==
    SelectSeq(mon'.events,
              LAMBDA ev : ev.type = "delivery_delayed" /\ ev.po_id = j)

\* C21: the delay scan of a tick publishes, for every order that is pending,
\* approved or shipped and whose expected delivery is earlier than now,
\* exactly one delivery_delayed event carrying the delay, of severity high
\* when the delay exceeds 3 days and medium otherwise, and none for any
\* other order.
C21_DelayedPublished ==
    [][mon.pc = "delay" /\ mon'.pc # "delay"
       => \A j \in DOMAIN purchase_orders :
             IF j \in DueOrders
             THEN /\ Len(DelayedFor(j)) = 1
                  /\ DelayedFor(j)[1].delay_days
                       = now - purchase_orders[j].expected_delivery.t
                  /\ DelayedFor(j)[1].sev
                       = IF now - purchase_orders[j].expected_delivery.t > 3
                         THEN "high" ELSE "medium"
             ELSE DelayedFor(j) = <<>>]_vars

\* C31: an approved order is shipped by the cycle after the one that first
\* observed it approved: with no manual pass, the step that ships an order
\* belongs to at least the second pass that tracked it, and an auto-approved
\* order that two completed cycle passes have tracked is shipped or delivered.
C31_ShippedNextCycle ==
    /\ [][\A j \in DOMAIN purchase_orders :
             (/\ calls'.triggers = 0
              /\ purchase_orders[j].status = "approved"
              /\ purchase_orders'[j].status = "shipped")
             => obs'[j].passes >= 2]_vars
    /\ [](\A j \in DOMAIN purchase_orders :
             (/\ Quiescent
              /\ calls.triggers = 0
              /\ purchase_orders[j].approval_status = "auto_approved"
              /\ obs[j].passes >= 2)
             => purchase_orders[j].status \in {"shipped", "delivered"})

\* C32: after n publish calls recent_events is the last min(100, n)
\* published events, in the order they were published, and event_count is n.
C32_RecentEvents ==
    LET n == calls.tools
        m == IF n < RecentWindow THEN n ELSE RecentWindow
        recent == RecentEvents(bus)
    IN bus.pc = "idle" =>
          /\ Len(recent) = m
          /\ \A k \in 1..m : recent[k] = LogEvent(n - m + k - 1)
          /\ EventCount(bus) = n

C32_Witness ==
    /\ calls.tools = RecentWindow + 2
    /\ Len(RecentEvents(bus)) = RecentWindow
    /\ RecentEvents(bus)[1] = "po_created"
    /\ Len(bus.event_log) = RecentWindow + 2

\* C33: the bus's buffers are bounded: the event log never stores more than
\* the 100 events recent_events serves, and the queue never holds more than
\* that many events.
C33_BuffersBounded ==
    /\ Len(bus.event_log) <= RecentWindow
    /\ Len(bus.queue) <= RecentWindow

\* C34: adjust_safety_stock sets the product's safety stock to the new value
\* exactly when the change is at most 25 percent of the old value (of 1 when
\* the old value is below 1), and then registers nothing; for a larger change
\* it leaves every safety stock as it was and registers one pending request;
\* for a negative value or an unknown product it returns an error and changes
\* neither.
C34_AdjustGate ==
    [][(Acted /\ LastAction.action_type = "adjust_safety_stock")
       => LET p == LastAction.input_data.product_id
              v == LastAction.input_data.new_safety_stock
              res == LastAction.returned
          IN IF v < 0 \/ p \notin Products
             THEN /\ res.error
                  /\ safety_stock' = safety_stock
                  /\ pending_approvals' = pending_approvals
             ELSE LET old == IF safety_stock[p] < 1 THEN 1 ELSE safety_stock[p]
                      d == IF v < safety_stock[p] THEN safety_stock[p] - v
                           ELSE v - safety_stock[p]
                  IN IF 4 * d <= old
                     THEN /\ res.status = "applied"
                          /\ safety_stock' = [safety_stock EXCEPT ![p] = v]
                          /\ pending_approvals' = pending_approvals
                     ELSE /\ res.status = "pending_approval"
                          /\ safety_stock' = safety_stock
                          /\ Len(pending_approvals') = Len(pending_approvals) + 1
                          /\ SubSeq(pending_approvals', 1, Len(pending_approvals))
                                = pending_approvals
                          /\ NewRequest.status = "pending"
                          /\ NewRequest.request_type = "inventory_adjustment"]_vars

C34_Witness ==
    /\ Len(action_log) = 2
    /\ action_log[1].input_data = [product_id |-> "P1", new_safety_stock |-> 5]
    /\ action_log[1].returned.status = "applied"
    /\ safety_stock["P1"] = 5
    /\ action_log[2].input_data = [product_id |-> "P1", new_safety_stock |-> 10]
    /\ action_log[2].returned.status = "pending_approval"
    /\ Len(pending_approvals) = 1

\* the run_loop tasks that are inside a run_cycle, and the monitor _loop
\* tasks that are inside a tick
Cycling == {t \in DOMAIN run_loops : run_loops[t].pc = "cycle"}
Ticking == {t \in DOMAIN monitor.loops : monitor.loops[t].pc = "tick"}

\* C35: at most one run_loop task is running cycles at any time, whatever the
\* order of the start and stop requests: never are two of them inside a
\* run_cycle together.
C35_OneCycleLoop == Cardinality(Cycling) <= 1

\* C36: at most one monitor loop task is ticking at any time, whatever the
\* order of the start and stop requests: never are two of them inside a tick
\* together.
C36_OneMonitorLoop == Cardinality(Ticking) <= 1


\* some order in the list is auto-approved
AutoApprovedExists ==
    \E j \in DOMAIN purchase_orders :
        purchase_orders[j].approval_status = "auto_approved"

\* C37: every auto-approved order is delivered once the loop has kept running
\* past its expected delivery: after two completed logistics passes tracked it
\* with its delivery due it is delivered and its quantity has been credited to
\* its product once, and no cycle fails while an auto-approved order is in the
\* list.
C37_AutoApprovedDelivered ==
    /\ [](\A j \in DOMAIN purchase_orders :
             (/\ Quiescent
              /\ purchase_orders[j].approval_status = "auto_approved"
              /\ purchase_orders[j].product_id \in Products
              /\ obs[j].due_passes >= 2)
             => (purchase_orders[j].status = "delivered" /\ obs[j].credits = 1))
    /\ [][(cyc'.failures > cyc.failures) => ~AutoApprovedExists]_vars


\* C38: orders and purchase-order approval requests correspond one to one: every
\* order with approval_status pending has exactly one request in the
\* pending-approvals map that carries its po_id, and every request of type
\* purchase_order carries the po_id of an order that is in the order list.
C38_OrdersMatchRequests ==
    /\ \A j \in DOMAIN purchase_orders :
          purchase_orders[j].approval_status = "pending"
              => Cardinality({r \in DOMAIN pending_approvals :
                                 pending_approvals[r].po_id = j}) = 1
    /\ \A r \in DOMAIN pending_approvals :
          pending_approvals[r].request_type = "purchase_order"
              => pending_approvals[r].po_id \in DOMAIN purchase_orders


\* the orders of product p that are pending, approved or shipped
OpenOrders(p) ==
    {j \in DOMAIN purchase_orders :
        purchase_orders[j].product_id = p /\ IsActive(purchase_orders[j])}

\* C39: procurement never orders a product twice while an order is open: every
\* product has at most one order in status pending, approved or shipped.
C39_OneOpenOrderPerProduct ==
    \A p \in Products : Cardinality(OpenOrders(p)) <= 1


\* this step published a cycle_complete event
CycleCompletePublished == Len(cycle_complete') = Len(cycle_complete) + 1

\* C40: a cycle_complete event is published only for a cycle whose nine stages
\* have all finished: the step that publishes it ends that cycle's run_cycle
\* without a failure (reporting, KPI computation, persistence and demand
\* consumption are done), and the cycle number it carries is the orchestrator's.
C40_CycleCompleteAfterStages ==
    [][CycleCompletePublished
         => /\ cyc.pc \notin {"stopped", "created", "sleep"}
            /\ cyc'.pc = "sleep"
            /\ ~cyc'.failed
            /\ cycle_complete'[Len(cycle_complete')] = cycle_count]_vars

====
